---- MODULE Spec2Model ----
(***************************************************************************)
(* Conway's Game of Life on a pixel buffer (src/src/game_of_life.rs) with  *)
(* its settings UI (src/src/ui.rs).  The board is an RGBA8 image: cell     *)
(* (x,y) is the four bytes at offset (y*width + x)*4, and a cell is alive  *)
(* iff its four bytes equal settings.alive_color.                          *)
(*                                                                         *)
(* Conventions.  Rust's 0-based byte index p is the 1-based index p+1 of   *)
(* a TLA+ sequence.  Time is counted in multiples of the default time step *)
(* (0.03 s), so the f32/f64 comparisons of the tick gate are integer       *)
(* comparisons.  Window sizes are whole numbers of logical pixels.         *)
(***************************************************************************)
EXTENDS Integers, Sequences, FiniteSets, TLC

VARIABLES
    images,         \* Assets<Image>: handle id -> [data, width, height]
    board_handle,   \* BoardHandle resource: the handle of the board image
    texture,        \* Handle<Image> of the sprite tagged Board
    board_size,     \* BoardSize resource: [rows, columns]
    settings,       \* GameSettings resource
    brush,          \* Brush resource: its size
    next_state,     \* process_cells' Local<Vec<u8>>
    previous_tick,  \* process_cells' Local<f64>
    elapsed,        \* Time::elapsed_seconds_f64()
    win,            \* the window: [width, height]
    ui_events,      \* Events<UIEvent>: the events not yet read
    ui_show,        \* GameOfLifeUI.show
    phase,          \* the schedule of the frame that runs next
    pass,           \* position inside a process_cells pass, when run step by step
    overflow_checks,\* whether the build panics on integer overflow (debug) or wraps
    status,         \* "running", "panicked" after a Rust panic, "exited" after AppExit
    last            \* the last system that changed something, and what it did
                    \* (observation only: no system reads it)

vars == <<images, board_handle, texture, board_size, settings, brush, next_state,
          previous_tick, elapsed, win, ui_events, ui_show, phase, pass,
          overflow_checks, status, last>>

----------------------------------------------------------------------------
(* Bounds of the model *)

\* Largest number of cells of a board drawn for the rule engine alone.
MaxCells == 9
\* The clock stops being advanced at this reading.
MaxTime == 2

----------------------------------------------------------------------------
(* Program constants *)

DefaultAlive == <<64, 64, 243, 255>>
DefaultDead == <<0, 0, 0, 255>>
DefaultCellSize == 3
\* 0.03 s, the unit of time of the model
DefaultTimeStep == 1
U8Max == 255

Seeds == {"Random", "Spaceship", "GosperGliderGun", "SimkinGliderGun"}
DefaultSeed == "Random"

GameSettingsDefault ==
    [cell_size |-> DefaultCellSize, time_step_secs |-> DefaultTimeStep,
     alive_color |-> DefaultAlive, dead_color |-> DefaultDead, seed |-> DefaultSeed]

\* Colours the model draws from: the two defaults, and one that differs from the
\* default alive colour in the alpha channel only.
AlphaOnly == <<64, 64, 243, 254>>
Palette == {DefaultAlive, DefaultDead, AlphaOnly}

----------------------------------------------------------------------------
(* The image and its accessors *)

\* Option::None of get_pixel / get_pixel_mut
None == <<>>

\* A Vec holding the elements of the sequence s, each evaluated once
vec(s) == s \o <<>>

\* Image::new_fill: width*height pixels, each the four bytes of `pixel`
new_fill(width, height, pixel) ==
    [data |-> [k \in 1..(width * height * 4) |-> pixel[((k - 1) % 4) + 1]],
     width |-> width, height |-> height]

\* An image of the given size whose cell i (0-based, row-major) has colour cells[i+1]
image_of(width, height, cells) ==
    [data |-> [k \in 1..(width * height * 4) |->
                  cells[((k - 1) \div 4) + 1][((k - 1) % 4) + 1]],
     width |-> width, height |-> height]

\* get_pixel with the flat byte index checked against the buffer instead of the
\* coordinates against the size: a cell left of column 0 is the last cell of the
\* row above
get_pixel_flat_check(image, x, y) ==
    LET pos == (y * image.width + x) * 4
    IN IF pos < 0 \/ pos + 4 > Len(image.data)
       THEN <<>>
       ELSE <<image.data[pos + 1], image.data[pos + 2],
              image.data[pos + 3], image.data[pos + 4]>>

\* Pixel::get_pixel: the four bytes of cell (x,y), None off the image
get_pixel(image, x, y) ==
    IF x >= image.width \/ x < 0 \/ y >= image.height \/ y < 0
    THEN None
    ELSE LET pos == (y * image.width + x) * 4
         IN <<image.data[pos + 1], image.data[pos + 2],
              image.data[pos + 3], image.data[pos + 4]>>

\* State::cell_state with the alpha channel left out of the comparison
State_cell_state_rgb(data, st) ==
    IF /\ data[1] = st.alive_color[1]
       /\ data[2] = st.alive_color[2]
       /\ data[3] = st.alive_color[3]
    THEN "ALIVE"
    ELSE "DEAD"

\* State::cell_state: alive iff all four bytes equal settings.alive_color
State_cell_state(data, st) ==
    IF /\ data[1] = st.alive_color[1]
       /\ data[2] = st.alive_color[2]
       /\ data[3] = st.alive_color[3]
       /\ data[4] = st.alive_color[4]
    THEN "ALIVE"
    ELSE "DEAD"

\* The offsets of the four neighbours that share an edge with the cell
neighbour_offsets_orthogonal == {<<0, -1>>, <<-1, 0>>, <<1, 0>>, <<0, 1>>}

\* The neighbour offsets visited by cell_state's two loops (the centre is skipped)
neighbour_offsets == {o \in (-1..1) \X (-1..1) : ~(o[1] = 0 /\ o[2] = 0)}

\* neighbours_alive of cell_state: the visited neighbours that exist and are alive
neighbours_alive(image, x, y, st) ==
    Cardinality({o \in neighbour_offsets :
        LET n == get_pixel(image, x + o[1], y + o[2])
        IN n # None /\ State_cell_state(n, st) = "ALIVE"})

\* The rule without the overpopulation branch: an alive cell with two or more
\* alive neighbours survives
rule_no_overpopulation(state, n) ==
    IF state = "ALIVE"
    THEN IF n < 2 THEN "DEAD" ELSE "ALIVE"
    ELSE IF n = 3 THEN "ALIVE" ELSE "DEAD"

\* The rule without the underpopulation branch: an alive cell with fewer than two
\* alive neighbours survives
rule_no_underpopulation(state, n) ==
    IF state = "ALIVE"
    THEN IF n <= 3 THEN "ALIVE" ELSE "DEAD"
    ELSE IF n = 3 THEN "ALIVE" ELSE "DEAD"

\* The rule of cell_state, given the cell's state and its count
rule(state, n) ==
    IF state = "ALIVE"
    THEN IF n < 2 THEN "DEAD"
         ELSE IF n = 2 \/ n = 3 THEN "ALIVE" ELSE "DEAD"
    ELSE IF n = 3 THEN "ALIVE" ELSE "DEAD"

\* cell_state: the next state of cell (x,y); "PANIC" is the unwrap of a cell
\* that is not on the image
cell_state(image, x, y, st) ==
    LET centre == get_pixel(image, x, y)
    IN IF centre = None THEN "PANIC"
       ELSE rule(State_cell_state(centre, st), neighbours_alive(image, x, y, st))

----------------------------------------------------------------------------
(* The rule engine: process_cells *)

\* The board image behind the board handle
board_image == images[board_handle]

\* One iteration of process_cells' loop: cell i of `board` is evaluated and its
\* colour written to the four bytes of `ns` at 4*i.  y is floor(i / rows) computed
\* in f32 and cast to i32: a division by zero yields NaN (cast to 0) or infinity
\* (cast to i32::MAX).
loop_y(rows, i) ==
    IF rows = 0 THEN (IF i = 0 THEN 0 ELSE 2147483647) ELSE i \div rows

loop_x(rows, i) == i - loop_y(rows, i) * rows

cell_colour(board, rows, st, i) ==
    IF cell_state(board, loop_x(rows, i), loop_y(rows, i), st) = "ALIVE"
    THEN st.alive_color
    ELSE st.dead_color

write_cell(board, rows, st, ns, i) ==
    LET c == i * 4
        colour == cell_colour(board, rows, st, i)
    IN [ns EXCEPT ![c + 1] = colour[1], ![c + 2] = colour[2],
                  ![c + 3] = colour[3], ![c + 4] = colour[4]]

\* The loop from iteration i on: every cell is evaluated on `board`, which the loop
\* never writes, and its colour written to the four bytes of ns at 4 times its
\* number; no iteration reads ns, so the buffer after the loop is given byte by byte
process_loop(board, rows, st, ns, i) ==
    LET cells == i..((Len(board.data) \div 4) - 1)
        colours == vec([j \in 1..(Len(board.data) \div 4) |->
                           IF (j - 1) \in cells
                           THEN cell_colour(board, rows, st, j - 1)
                           ELSE <<>>])
    IN vec([k \in 1..Len(ns) |->
               IF ((k - 1) \div 4) \in cells
               THEN colours[((k - 1) \div 4) + 1][((k - 1) % 4) + 1]
               ELSE ns[k]])

\* Some iteration unwraps a cell that is not on the image
loop_panics(board, rows, st) ==
    \E i \in 0..((Len(board.data) \div 4) - 1) :
        cell_state(board, loop_x(rows, i), loop_y(rows, i), st) = "PANIC"

\* The gate left out: the loop runs at every call
gate_never_closed == FALSE

\* The gate with the operands of the subtraction exchanged
gate_closed_operands_swapped == previous_tick - elapsed <= settings.time_step_secs

\* The gate of process_cells: it returns at once unless more than the time step
\* has passed since the previous tick
gate_closed == elapsed - previous_tick <= settings.time_step_secs

\* The Vec the loop writes, were it cloned anew only when too short for the board
sized_next_state_if_short(board) ==
    IF Len(next_state) < Len(board.data) THEN board.data ELSE next_state

\* The Vec the loop writes: the retained next_state, or a clone of board.data when
\* their lengths differ
sized_next_state(board) ==
    IF Len(next_state) # Len(board.data) THEN board.data ELSE next_state

\* The system process_cells, whole
process_cells ==
    /\ status = "running"
    /\ ~pass.active
    /\ IF gate_closed
       THEN UNCHANGED <<images, next_state, previous_tick, status, last>>
       ELSE IF board_handle \notin DOMAIN images
       THEN /\ status' = "panicked"
            /\ previous_tick' = elapsed
            /\ last' = [op |-> "process_cells", arg |-> "unwrap",
                             retained |-> Len(next_state)]
            /\ UNCHANGED <<images, next_state>>
       ELSE LET board == board_image
                rows == board_size.rows
                ns == sized_next_state(board)
            IN IF loop_panics(board, rows, settings)
               THEN /\ status' = "panicked"
                    /\ previous_tick' = elapsed
                    /\ last' = [op |-> "process_cells", arg |-> "unwrap",
                             retained |-> Len(next_state)]
                    /\ UNCHANGED <<images, next_state>>
               ELSE LET done == process_loop(board, rows, settings, ns, 0)
                    IN /\ previous_tick' = elapsed
                       /\ next_state' = done
                       /\ images' = [images EXCEPT ![board_handle].data = done]
                       /\ last' = [op |-> "process_cells", arg |-> "advanced",
                                   retained |-> Len(next_state)]
                       /\ UNCHANGED status
    /\ UNCHANGED <<board_handle, texture, board_size, settings, brush, elapsed, win,
                   ui_events, ui_show, pass, overflow_checks>>

\* The Time resource is advanced by delta
time_advance(delta) ==
    /\ status = "running"
    /\ ~pass.active
    /\ elapsed' = elapsed + delta
    /\ UNCHANGED <<images, board_handle, texture, board_size, settings, brush, next_state,
                   previous_tick, win, ui_events, ui_show, pass, overflow_checks, status, last>>

\* Time passes
time_update ==
    /\ elapsed < MaxTime
    /\ \E delta \in 1..(MaxTime - elapsed) : time_advance(delta)

----------------------------------------------------------------------------
(* The seed generator: reset_board and seed *)

\* Period of the random streams drawn: cell i of a random seed is made alive iff
\* draw i mod MaxDraw of the stream is >= 0.5
MaxDraw == 2

\* The streams a random seed may draw
Draws == [0..(MaxDraw - 1) -> BOOLEAN]

\* reset_board: every cell is set to dead_color
reset_board(data, st) ==
    vec([k \in 1..Len(data) |->
            IF k <= 4 * (Len(data) \div 4) THEN st.dead_color[((k - 1) % 4) + 1] ELSE data[k]])

\* Seed::Random: a cell whose draw is >= 0.5 is set to alive_color, the others are
\* left as they are
seed_random(data, st, rnd) ==
    [k \in 1..Len(data) |->
        IF k <= 4 * (Len(data) \div 4) /\ rnd[((k - 1) \div 4) % MaxDraw]
        THEN st.alive_color[((k - 1) % 4) + 1]
        ELSE data[k]]

GosperGliderGun ==
    << <<0,0,0,0,0,0,0,0,0,0,0,0,0,0,0,0,0,0,0,0,0,0,0,0,1,0,0,0,0,0,0,0,0,0,0,0>>,
       <<0,0,0,0,0,0,0,0,0,0,0,0,0,0,0,0,0,0,0,0,0,0,1,0,1,0,0,0,0,0,0,0,0,0,0,0>>,
       <<0,0,0,0,0,0,0,0,0,0,0,0,1,1,0,0,0,0,0,0,1,1,0,0,0,0,0,0,0,0,0,0,0,0,1,1>>,
       <<0,0,0,0,0,0,0,0,0,0,0,1,0,0,0,1,0,0,0,0,1,1,0,0,0,0,0,0,0,0,0,0,0,0,1,1>>,
       <<1,1,0,0,0,0,0,0,0,0,1,0,0,0,0,0,1,0,0,0,1,1,0,0,0,0,0,0,0,0,0,0,0,0,0,0>>,
       <<1,1,0,0,0,0,0,0,0,0,1,0,0,0,1,0,1,1,0,0,0,0,1,0,1,0,0,0,0,0,0,0,0,0,0,0>>,
       <<0,0,0,0,0,0,0,0,0,0,1,0,0,0,0,0,1,0,0,0,0,0,0,0,1,0,0,0,0,0,0,0,0,0,0,0>>,
       <<0,0,0,0,0,0,0,0,0,0,0,1,0,0,0,1,0,0,0,0,0,0,0,0,0,0,0,0,0,0,0,0,0,0,0,0>>,
       <<0,0,0,0,0,0,0,0,0,0,0,0,1,1,0,0,0,0,0,0,0,0,0,0,0,0,0,0,0,0,0,0,0,0,0,0>> >>

SimkinGliderGun ==
    << <<1,1,0,0,0,0,0,1,1,0,0,0,0,0,0,0,0,0,0,0,0,0,0,0,0,0,0,0,0,0,0,0,0>>,
       <<1,1,0,0,0,0,0,1,1,0,0,0,0,0,0,0,0,0,0,0,0,0,0,0,0,0,0,0,0,0,0,0,0>>,
       <<0,0,0,0,0,0,0,0,0,0,0,0,0,0,0,0,0,0,0,0,0,0,0,0,0,0,0,0,0,0,0,0,0>>,
       <<0,0,0,0,1,1,0,0,0,0,0,0,0,0,0,0,0,0,0,0,0,0,0,0,0,0,0,0,0,0,0,0,0>>,
       <<0,0,0,0,1,1,0,0,0,0,0,0,0,0,0,0,0,0,0,0,0,0,0,0,0,0,0,0,0,0,0,0,0>>,
       <<0,0,0,0,0,0,0,0,0,0,0,0,0,0,0,0,0,0,0,0,0,0,0,0,0,0,0,0,0,0,0,0,0>>,
       <<0,0,0,0,0,0,0,0,0,0,0,0,0,0,0,0,0,0,0,0,0,0,0,0,0,0,0,0,0,0,0,0,0>>,
       <<0,0,0,0,0,0,0,0,0,0,0,0,0,0,0,0,0,0,0,0,0,0,0,0,0,0,0,0,0,0,0,0,0>>,
       <<0,0,0,0,0,0,0,0,0,0,0,0,0,0,0,0,0,0,0,0,0,0,0,0,0,0,0,0,0,0,0,0,0>>,
       <<0,0,0,0,0,0,0,0,0,0,0,0,0,0,0,0,0,0,0,0,0,0,1,1,0,1,1,0,0,0,0,0,0>>,
       <<0,0,0,0,0,0,0,0,0,0,0,0,0,0,0,0,0,0,0,0,0,1,0,0,0,0,0,1,0,0,0,0,0>>,
       <<0,0,0,0,0,0,0,0,0,0,0,0,0,0,0,0,0,0,0,0,0,1,0,0,0,0,0,0,1,0,0,1,1>>,
       <<0,0,0,0,0,0,0,0,0,0,0,0,0,0,0,0,0,0,0,0,0,1,1,1,0,0,0,1,0,0,0,1,1>>,
       <<0,0,0,0,0,0,0,0,0,0,0,0,0,0,0,0,0,0,0,0,0,0,0,0,0,0,1,0,0,0,0,0,0>>,
       <<0,0,0,0,0,0,0,0,0,0,0,0,0,0,0,0,0,0,0,0,0,0,0,0,0,0,0,0,0,0,0,0,0>>,
       <<0,0,0,0,0,0,0,0,0,0,0,0,0,0,0,0,0,0,0,0,0,0,0,0,0,0,0,0,0,0,0,0,0>>,
       <<0,0,0,0,0,0,0,0,0,0,0,0,0,0,0,0,0,0,0,0,0,0,0,0,0,0,0,0,0,0,0,0,0>>,
       <<0,0,0,0,0,0,0,0,0,0,0,0,0,0,0,0,0,0,0,0,0,0,0,0,0,0,0,0,0,0,0,0,0>>,
       <<0,0,0,0,0,0,0,0,0,0,0,0,0,0,0,0,0,0,0,0,0,0,0,0,1,0,1,1,0,0,0,0,0>>,
       <<0,0,0,0,0,0,0,0,0,0,0,0,0,0,0,0,0,0,0,0,0,0,0,0,1,1,0,1,0,0,0,0,0>> >>

\* gun_to_buff_values with each pattern row read from its last column backwards
gun_to_buff_values_mirrored(st, gun, yy, xx) ==
    IF gun[yy + 1][Len(gun[yy + 1]) - xx] = 1 THEN st.alive_color ELSE st.dead_color

\* gun_to_buff_values: the colour of pattern row yy, pattern column xx (0-based)
gun_to_buff_values(st, gun, yy, xx) ==
    IF gun[yy + 1][xx + 1] = 1 THEN st.alive_color ELSE st.dead_color

\* The offsets left out: an odd size loses its last row or column
gun_offset_none(size) == 0

\* offset_x, offset_y: 1 for an odd size
gun_offset(size) == IF size % 2 # 0 THEN 1 ELSE 0

\* x_start, y_start: center as usize - size / 2.  A negative value here is the
\* usize subtraction overflowing.
gun_start(board_dim, size) == (board_dim \div 2) - (size \div 2)

\* x_end, y_end, were the offset 1 for every size
gun_end_offset_always(board_dim, size) == (board_dim \div 2) + (size \div 2) + 1

\* x_end, y_end: (center as usize + size / 2) + offset
gun_end(board_dim, size) == (board_dim \div 2) + (size \div 2) + gun_offset(size)

\* The values the loop variable of `for v in start..end` takes.  When the
\* subtraction overflowed and wrapped, start is above end and the range is empty.
gun_range(board_dim, size) ==
    IF gun_start(board_dim, size) < 0
    THEN {}
    ELSE gun_start(board_dim, size)..(gun_end(board_dim, size) - 1)

\* The subtraction of x_start or y_start overflows
gun_overflows(image, gun) ==
    \/ gun_start(image.width, Len(gun[1])) < 0
    \/ gun_start(image.height, Len(gun)) < 0

\* The (i, j) the two loops visit
gun_writes(image, gun) ==
    gun_range(image.height, Len(gun)) \X gun_range(image.width, Len(gun[1]))

\* The byte offset written at (i, j)
gun_offset_of(image, i, j) == (i * image.width * 4) + j * 4

\* Some write indexes board.data past its end
gun_out_of_bounds(image, gun) ==
    \E w \in gun_writes(image, gun) :
        gun_offset_of(image, w[1], w[2]) + 4 > Len(image.data)

\* The pattern written over its box: the bytes at offset (i*width + j)*4 get the
\* colour of pattern cell (i - y_start, j - x_start); of two writes to one offset
\* the later one (the larger i) stays
seed_gun(image, st, gun) ==
    LET xs == gun_range(image.width, Len(gun[1]))
        ys == gun_range(image.height, Len(gun))
        x_start == gun_start(image.width, Len(gun[1]))
        y_start == gun_start(image.height, Len(gun))
    IN vec([k \in 1..Len(image.data) |->
               LET q == (k - 1) \div 4
                   rows_hit == {i \in ys : (q - i * image.width) \in xs}
               IN IF rows_hit = {}
                  THEN image.data[k]
                  ELSE LET last_row == CHOOSE i \in rows_hit : \A o \in rows_hit : o <= i
                       IN gun_to_buff_values(st, gun, last_row - y_start,
                              (q - last_row * image.width) - x_start)[((k - 1) % 4) + 1]])

\* seed, were the `_ => {}` arm to make the first cell alive
seed_spaceship_cell(image, st, rnd, checks) ==
    CASE st.seed = "Random" ->
            [data |-> seed_random(image.data, st, rnd), panic |-> FALSE]
      [] st.seed \in {"GosperGliderGun", "SimkinGliderGun"} ->
            LET gun == IF st.seed = "GosperGliderGun" THEN GosperGliderGun
                       ELSE SimkinGliderGun
            IN IF \/ checks /\ gun_overflows(image, gun)
                  \/ gun_out_of_bounds(image, gun)
               THEN [data |-> image.data, panic |-> TRUE]
               ELSE [data |-> seed_gun(image, st, gun), panic |-> FALSE]
      [] OTHER -> [data |-> vec([k \in 1..Len(image.data) |->
                                    IF k <= 4 THEN st.alive_color[k] ELSE image.data[k]]),
                   panic |-> FALSE]

\* seed: the board's bytes after seeding with settings.seed, and whether the
\* seeding panics (an overflow in a build that checks for it, or an index out of
\* the buffer).  Seed::Spaceship falls in the `_ => {}` arm.
seed(image, st, rnd, checks) ==
    CASE st.seed = "Random" ->
            [data |-> seed_random(image.data, st, rnd), panic |-> FALSE]
      [] st.seed \in {"GosperGliderGun", "SimkinGliderGun"} ->
            LET gun == IF st.seed = "GosperGliderGun" THEN GosperGliderGun
                       ELSE SimkinGliderGun
            IN IF \/ checks /\ gun_overflows(image, gun)
                  \/ gun_out_of_bounds(image, gun)
               THEN [data |-> image.data, panic |-> TRUE]
               ELSE [data |-> seed_gun(image, st, gun), panic |-> FALSE]
      [] OTHER -> [data |-> image.data, panic |-> FALSE]

\* create_board with the quotients rounded up
create_board_ceil(st, window) ==
    IF st.cell_size = 0
    THEN [panic |-> TRUE]
    ELSE LET rows == (window.width + st.cell_size - 1) \div st.cell_size
             columns == (window.height + st.cell_size - 1) \div st.cell_size
         IN [panic |-> FALSE, image |-> new_fill(rows, columns, st.dead_color),
             rows |-> rows, columns |-> columns]

\* create_board: rows and columns from the window and the cell size, and an image
\* of that size filled with dead_color.  A cell size of 0 divides by zero: the
\* quotient is infinite, the cast to u32 saturates, and the allocation of the
\* image fails.
create_board(st, window) ==
    IF st.cell_size = 0
    THEN [panic |-> TRUE]
    ELSE LET rows == window.width \div st.cell_size
             columns == window.height \div st.cell_size
         IN [panic |-> FALSE, image |-> new_fill(rows, columns, st.dead_color),
             rows |-> rows, columns |-> columns]

----------------------------------------------------------------------------
(* The reconfiguration manager: handle_ui_events *)

\* The handle Assets::add returns: one no live image and no holder has
fresh_handle(w) ==
    CHOOSE h \in 0..2 : h \notin (DOMAIN w.images) \cup {w.board_handle, w.texture}

\* The part of the state handle_ui_events works on
world == [images |-> images, board_handle |-> board_handle, texture |-> texture,
          board_size |-> board_size, settings |-> settings, status |-> status]

panicked(w) == [w EXCEPT !.status = "panicked"]

\* The ChangeColor loop, were the settings assigned before it: a cell is
\* classified with the colours of the event
recolour_settings_first(data, st, alive_color, dead_color) ==
    [k \in 1..Len(data) |->
        IF k > 4 * (Len(data) \div 4)
        THEN data[k]
        ELSE LET c == ((k - 1) \div 4) * 4
             IN IF State_cell_state(<<data[c + 1], data[c + 2], data[c + 3], data[c + 4]>>,
                                    [st EXCEPT !.alive_color = alive_color]) = "ALIVE"
                THEN alive_color[((k - 1) % 4) + 1]
                ELSE dead_color[((k - 1) % 4) + 1]]

\* The ChangeColor loop, were its DEAD arm left out
recolour_alive_only(data, st, alive_color, dead_color) ==
    [k \in 1..Len(data) |->
        IF k > 4 * (Len(data) \div 4)
        THEN data[k]
        ELSE LET c == ((k - 1) \div 4) * 4
             IN IF State_cell_state(<<data[c + 1], data[c + 2], data[c + 3], data[c + 4]>>,
                                    st) = "ALIVE"
                THEN alive_color[((k - 1) % 4) + 1]
                ELSE data[k]]

\* One cell of the ChangeColor loop: classified with the settings as they are,
\* rewritten with the colours of the event
recolour(data, st, alive_color, dead_color) ==
    [k \in 1..Len(data) |->
        IF k > 4 * (Len(data) \div 4)
        THEN data[k]
        ELSE LET c == ((k - 1) \div 4) * 4
             IN IF State_cell_state(<<data[c + 1], data[c + 2], data[c + 3], data[c + 4]>>,
                                    st) = "ALIVE"
                THEN alive_color[((k - 1) % 4) + 1]
                ELSE dead_color[((k - 1) % 4) + 1]]

\* UIEvent::ChangeColor, were the loop over the cells left out
change_color_settings_only(w, alive_color, dead_color) ==
    IF w.board_handle \notin DOMAIN w.images
    THEN panicked(w)
    ELSE [w EXCEPT !.settings.alive_color = alive_color,
                   !.settings.dead_color = dead_color]

\* UIEvent::ChangeColor(alive_color, dead_color)
change_color(w, alive_color, dead_color) ==
    IF w.board_handle \notin DOMAIN w.images
    THEN panicked(w)
    ELSE [w EXCEPT !.images[w.board_handle].data =
                        recolour(@, w.settings, alive_color, dead_color),
                   !.settings.alive_color = alive_color,
                   !.settings.dead_color = dead_color]

\* UIEvent::ChangeSeed(seed_value), were the board not reset before it is seeded
change_seed_no_reset(w, seed_value, rnd, checks) ==
    IF w.board_handle \notin DOMAIN w.images
    THEN panicked(w)
    ELSE LET st == [w.settings EXCEPT !.seed = seed_value]
             seeded == seed(w.images[w.board_handle], st, rnd, checks)
         IN IF seeded.panic
            THEN panicked([w EXCEPT !.settings = st])
            ELSE [w EXCEPT !.settings = st,
                           !.images[w.board_handle].data = seeded.data]

\* UIEvent::ChangeSeed(seed_value)
change_seed(w, seed_value, rnd, checks) ==
    IF w.board_handle \notin DOMAIN w.images
    THEN panicked(w)
    ELSE LET st == [w.settings EXCEPT !.seed = seed_value]
             board == w.images[w.board_handle]
             cleared == [board EXCEPT !.data = reset_board(board.data, st)]
             seeded == seed(cleared, st, rnd, checks)
         IN IF seeded.panic
            THEN panicked([w EXCEPT !.settings = st])
            ELSE [w EXCEPT !.settings = st,
                           !.images[w.board_handle].data = seeded.data]

\* UIEvent::ChangeTimestep(time_step), were the board cleared with it
change_timestep_clearing(w, time_step) ==
    IF w.board_handle \notin DOMAIN w.images
    THEN panicked(w)
    ELSE [w EXCEPT !.settings.time_step_secs = time_step,
                   !.images[w.board_handle].data = reset_board(@, w.settings)]

\* UIEvent::ChangeTimestep(time_step)
change_timestep(w, time_step) == [w EXCEPT !.settings.time_step_secs = time_step]

\* UIEvent::ChangeCellSize(cell_size), were BoardHandle left as it was
change_cell_size_stale_handle(w, cell_size, window, rnd, checks) ==
    LET st == [w.settings EXCEPT !.cell_size = cell_size]
        removed == [h \in (DOMAIN w.images) \ {w.board_handle} |-> w.images[h]]
        new_board == create_board(st, window)
    IN IF new_board.panic
       THEN panicked([w EXCEPT !.settings = st, !.images = removed])
       ELSE LET seeded == seed(new_board.image, st, rnd, checks)
                image_handle == fresh_handle([w EXCEPT !.images = removed])
            IN IF seeded.panic
               THEN panicked([w EXCEPT !.settings = st, !.images = removed])
               ELSE [w EXCEPT
                       !.settings = st,
                       !.images = (image_handle :> [new_board.image EXCEPT
                                                       !.data = seeded.data]) @@ removed,
                       !.texture = image_handle,
                       !.board_size = [rows |-> new_board.rows,
                                       columns |-> new_board.columns]]

\* UIEvent::ChangeCellSize(cell_size)
change_cell_size(w, cell_size, window, rnd, checks) ==
    LET st == [w.settings EXCEPT !.cell_size = cell_size]
        removed == [h \in (DOMAIN w.images) \ {w.board_handle} |-> w.images[h]]
        new_board == create_board(st, window)
    IN IF new_board.panic
       THEN panicked([w EXCEPT !.settings = st, !.images = removed])
       ELSE LET seeded == seed(new_board.image, st, rnd, checks)
                image_handle == fresh_handle([w EXCEPT !.images = removed])
            IN IF seeded.panic
               THEN panicked([w EXCEPT !.settings = st, !.images = removed])
               ELSE [w EXCEPT
                       !.settings = st,
                       !.images = (image_handle :> [new_board.image EXCEPT
                                                       !.data = seeded.data]) @@ removed,
                       !.texture = image_handle,
                       !.board_handle = image_handle,
                       !.board_size = [rows |-> new_board.rows,
                                       columns |-> new_board.columns]]

\* One arm of the match on an event
apply_event(w, ev, window, rnd, checks) ==
    CASE ev[1] = "ChangeColor" -> change_color(w, ev[2], ev[3])
      [] ev[1] = "ChangeSeed" -> change_seed(w, ev[2], rnd, checks)
      [] ev[1] = "ChangeTimestep" -> change_timestep(w, ev[2])
      [] ev[1] = "ChangeCellSize" -> change_cell_size(w, ev[2], window, rnd, checks)
      [] OTHER -> w

\* The loop over the events read, from event n on; a panic ends it
RECURSIVE handle_from(_, _, _, _, _, _)
handle_from(w, evs, n, window, rnds, checks) ==
    IF n > Len(evs) \/ w.status # "running"
    THEN w
    ELSE handle_from(apply_event(w, evs[n], window, rnds[n], checks), evs, n + 1,
                     window, rnds, checks)

\* The seed in force when event n of `evs` is handled
seed_at(evs, n) ==
    LET earlier == {m \in 1..(n - 1) : evs[m][1] = "ChangeSeed"}
    IN IF earlier = {}
       THEN settings.seed
       ELSE evs[CHOOSE m \in earlier : \A o \in earlier : o <= m][2]

\* The handling of event n of `evs` draws random numbers: it seeds, and the seed
\* is Random
may_draw(evs, n) ==
    \/ evs[n][1] = "ChangeSeed" /\ evs[n][2] = "Random"
    \/ evs[n][1] = "ChangeCellSize" /\ seed_at(evs, n) = "Random"

\* The stream given to an event that draws nothing
NoDraw == [d \in 0..(MaxDraw - 1) |-> FALSE]

\* handle_ui_events on the events `evs` its reader yields: they are handled in
\* the order sent, and the reader has then read them all
handle_ui_events_reading(evs) ==
    /\ status = "running"
    /\ ~pass.active
    /\ \E rnds \in [1..Len(evs) -> Draws] :
          /\ \A n \in 1..Len(evs) : ~may_draw(evs, n) => rnds[n] = NoDraw
          /\ \E w \in {handle_from(world, evs, 1, win, rnds, overflow_checks)} :
                /\ images' = w.images
                /\ board_handle' = w.board_handle
                /\ texture' = w.texture
                /\ board_size' = w.board_size
                /\ settings' = w.settings
                /\ status' = w.status
    /\ ui_events' = <<>>
    /\ UNCHANGED <<brush, next_state, previous_tick, elapsed, win, ui_show, pass,
                   overflow_checks, last>>

\* The system handle_ui_events, whole
handle_ui_events == handle_ui_events_reading(ui_events)

----------------------------------------------------------------------------
(* The brush: handle_events *)

\* Largest brush size the model lets the K key reach where the board is small
MaxBrush == 2

\* round(a / b) of f32::round, for a >= 0 and b > 0: halves round away from zero
round_div(a, b) == (2 * a + b) \div (2 * b)

\* The J and K arms without their tests: the u8 wraps
brush_keys_wrapping(size, keys) ==
    LET after_j == IF "J" \in keys THEN (size - 1) % (U8Max + 1) ELSE size
    IN IF "K" \in keys THEN (after_j + 1) % (U8Max + 1) ELSE after_j

\* The J and K arms: one step down unless at 1, then one step up unless at u8::MAX
brush_keys(size, keys) ==
    LET after_j == IF "J" \in keys /\ size > 1 THEN size - 1 ELSE size
    IN IF "K" \in keys /\ after_j < U8Max THEN after_j + 1 ELSE after_j

\* get_pixel_mut with the range checked on the byte offset only
get_pixel_mut_flat_check(image, x, y) ==
    LET pos == (y * image.width + x) * 4
    IN IF pos < 0 \/ pos + 4 > Len(image.data)
       THEN None
       ELSE <<pos>>

\* Pixel::get_pixel_mut: the offset of cell (x,y), None off the image
get_pixel_mut(image, x, y) ==
    IF x >= image.width \/ x < 0 \/ y >= image.height \/ y < 0
    THEN None
    ELSE <<(y * image.width + x) * 4>>

\* The two loops without the test of the distance: the whole square is painted
paint_square(image, st, posx, posy, size) ==
    LET hit == {c \in ((posx - size)..(posx + size)) \X ((posy - size)..(posy + size)) :
                   get_pixel_mut(image, c[1], c[2]) # None}
        offsets == {get_pixel_mut(image, c[1], c[2])[1] : c \in hit}
    IN [k \in 1..Len(image.data) |->
           IF (((k - 1) \div 4) * 4) \in offsets
           THEN st.alive_color[((k - 1) % 4) + 1]
           ELSE image.data[k]]

\* The two loops over the square of the brush: every cell of the image within
\* `size` of (posx, posy) is set to alive_color
paint(image, st, posx, posy, size) ==
    LET hit == {c \in ((posx - size)..(posx + size)) \X ((posy - size)..(posy + size)) :
                   /\ (c[1] - posx) * (c[1] - posx) + (c[2] - posy) * (c[2] - posy)
                          <= size * size
                   /\ get_pixel_mut(image, c[1], c[2]) # None}
        offsets == {get_pixel_mut(image, c[1], c[2])[1] : c \in hit}
    IN [k \in 1..Len(image.data) |->
           IF (((k - 1) \div 4) * 4) \in offsets
           THEN st.alive_color[((k - 1) % 4) + 1]
           ELSE image.data[k]]

\* handle_events, were it let run while process_cells holds the images
handle_events_mid_pass(keys, left, over_ui, cursor) ==
    /\ status = "running"
    /\ brush' = brush_keys(brush, keys)
    /\ status' = IF "Escape" \in keys THEN "exited" ELSE status
    /\ IF left /\ ~over_ui /\ cursor # None /\ board_handle \in DOMAIN images
       THEN LET posx == round_div(cursor[1] * board_size.rows, win.width)
                posy == round_div(cursor[2] * board_size.columns, win.height)
            IN /\ images' = [images EXCEPT ![board_handle].data =
                                paint(board_image, settings, posx, posy, brush')]
               /\ last' = [op |-> "handle_events", arg |-> "painted", retained |-> 0]
       ELSE UNCHANGED <<images, last>>
    /\ UNCHANGED <<board_handle, texture, board_size, settings, next_state, previous_tick,
                   elapsed, win, ui_events, ui_show, pass, overflow_checks>>

\* handle_events without the return of lines 354-356: the brush paints under the UI
handle_events_over_ui(keys, left, over_ui, cursor) ==
    /\ status = "running"
    /\ ~pass.active
    /\ brush' = brush_keys(brush, keys)
    /\ status' = IF "Escape" \in keys THEN "exited" ELSE status
    /\ IF left /\ cursor # None /\ board_handle \in DOMAIN images
       THEN LET posx == round_div(cursor[1] * board_size.rows, win.width)
                posy == round_div(cursor[2] * board_size.columns, win.height)
            IN /\ images' = [images EXCEPT ![board_handle].data =
                                paint(board_image, settings, posx, posy, brush')]
               /\ last' = [op |-> "handle_events", arg |-> "painted", retained |-> 0]
       ELSE UNCHANGED <<images, last>>
    /\ UNCHANGED <<board_handle, texture, board_size, settings, next_state, previous_tick,
                   elapsed, win, ui_events, ui_show, pass, overflow_checks>>

\* The system handle_events of game_of_life.rs, whole.  Its inputs: the keys held,
\* whether the left button is held, whether the pointer is over an egui area, and
\* the cursor position (None when the cursor is outside the window).
handle_events(keys, left, over_ui, cursor) ==
    /\ status = "running"
    /\ ~pass.active
    /\ brush' = brush_keys(brush, keys)
    /\ status' = IF "Escape" \in keys THEN "exited" ELSE status
    /\ IF left /\ ~over_ui /\ cursor # None /\ board_handle \in DOMAIN images
       THEN LET posx == round_div(cursor[1] * board_size.rows, win.width)
                posy == round_div(cursor[2] * board_size.columns, win.height)
            IN /\ images' = [images EXCEPT ![board_handle].data =
                                paint(board_image, settings, posx, posy, brush')]
               /\ last' = [op |-> "handle_events", arg |-> "painted", retained |-> 0]
       ELSE UNCHANGED <<images, last>>
    /\ UNCHANGED <<board_handle, texture, board_size, settings, next_state, previous_tick,
                   elapsed, win, ui_events, ui_show, pass, overflow_checks>>

----------------------------------------------------------------------------
(* The settings UI: egui_init and handle_events of ui.rs *)

\* An f32 colour channel in [0, 1] is held as the number of 510ths it is, so that
\* c / 255 is 2c and the halfway points of the rounding back are whole numbers.
\* u8_255_color_to_f32_1
u8_255_color_to_f32_1(color) ==
    <<color[1] * 2, color[2] * 2, color[3] * 2, color[4] * 2>>

\* (x * 255.).round() as u8: the nearest byte, halves away from zero, saturating
round_channel(x) ==
    LET r == (x + 1) \div 2
    IN IF r > U8Max THEN U8Max ELSE IF r < 0 THEN 0 ELSE r

\* f32_1_color_to_u8_255
f32_1_color_to_u8_255(color) ==
    <<round_channel(color[1]), round_channel(color[2]),
      round_channel(color[3]), round_channel(color[4])>>

\* The guard of the ChangeColor emission without its last conjunct
color_guard_no_distinct(alive, dead, st) ==
    alive # st.alive_color \/ dead # st.dead_color

\* The guard of the ChangeColor emission
color_guard(alive, dead, st) ==
    (alive # st.alive_color \/ dead # st.dead_color) /\ alive # dead

\* The events egui_init sends when the colour buttons hold egui_alive_color and
\* egui_dead_color and the combo box holds `selected`
egui_events(egui_alive_color, egui_dead_color, selected, st) ==
    LET egui_u8_alive_color == f32_1_color_to_u8_255(egui_alive_color)
        egui_u8_dead_color == f32_1_color_to_u8_255(egui_dead_color)
    IN (IF color_guard(egui_u8_alive_color, egui_u8_dead_color, st)
        THEN << <<"ChangeColor", egui_u8_alive_color, egui_u8_dead_color>> >>
        ELSE <<>>)
       \o (IF st.seed # selected THEN << <<"ChangeSeed", selected>> >> ELSE <<>>)

\* What the user may leave in a colour button: one of the two default colours, or
\* the default alive colour with its alpha half a step below 1.0, which rounds to it
EguiEdits ==
    {u8_255_color_to_f32_1(DefaultAlive), u8_255_color_to_f32_1(DefaultDead),
     <<128, 128, 486, 509>>}

\* The system egui_init, whole: the window is shown only when ui_state.show; an
\* untouched widget holds the value read from the settings
egui_init ==
    /\ status = "running"
    /\ ~pass.active
    /\ IF ui_show
       THEN \E a \in EguiEdits \cup {u8_255_color_to_f32_1(settings.alive_color)},
               d \in EguiEdits \cup {u8_255_color_to_f32_1(settings.dead_color)},
               selected \in Seeds :
               ui_events' = ui_events \o egui_events(a, d, selected, settings)
       ELSE UNCHANGED ui_events
    /\ UNCHANGED <<images, board_handle, texture, board_size, settings, brush, next_state,
                   previous_tick, elapsed, win, ui_show, pass, overflow_checks,
                   status, last>>

\* The system handle_events of ui.rs: U toggles the settings window
ui_handle_events(u_pressed) ==
    /\ status = "running"
    /\ ~pass.active
    /\ ui_show' = IF u_pressed THEN ~ui_show ELSE ui_show
    /\ UNCHANGED <<images, board_handle, texture, board_size, settings, brush, next_state,
                   previous_tick, elapsed, win, ui_events, pass, overflow_checks,
                   status, last>>

----------------------------------------------------------------------------
(* The schedule of a frame *)

\* The systems of each schedule label, as the plugins register them
StageSystems(stage) ==
    CASE stage = "First" -> {"time_system"}
      [] stage = "Update" -> {"process_cells"}
      [] stage = "PostUpdate" -> {"egui_init", "ui::handle_events"}
      [] stage = "Last" -> {"handle_ui_events", "handle_events"}

NextStage(stage) ==
    CASE stage = "First" -> "Update"
      [] stage = "Update" -> "PostUpdate"
      [] stage = "PostUpdate" -> "Last"
      [] stage = "Last" -> "First"

StartOfFrame == [stage |-> "First", ran |-> {}]

\* `system` runs now: its schedule is the current one and it has not run in this
\* frame; the systems of one schedule run in any order
runs(stage, system) ==
    /\ phase.stage = stage
    /\ system \notin phase.ran
    /\ phase' = IF phase.ran \cup {system} = StageSystems(stage)
                THEN [stage |-> NextStage(stage), ran |-> {}]
                ELSE [phase EXCEPT !.ran = @ \cup {system}]

----------------------------------------------------------------------------
(* The rule engine on any board: the boards, colours and sizes are drawn *)

Idle == [active |-> FALSE, i |-> 0, start |-> <<>>, retained |-> 0]

\* The sizes of the boards drawn: every rows x columns of at most MaxCells cells
RuleSizes ==
    {s \in (1..MaxCells) \X (1..MaxCells) : s[1] * s[2] <= MaxCells}

\* Settings whose two colours differ
ValidColours == {p \in Palette \X Palette : p[1] # p[2]}

\* The state in which a board of one of `sizes`, coloured cell by cell from
\* `cell_colours`, is the board of a program whose settings hold one of `colours`
InitDrawn(sizes, colours, cell_colours, builds) ==
    /\ \E s \in sizes, p \in colours :
          /\ board_size = [rows |-> s[1], columns |-> s[2]]
          /\ settings = [GameSettingsDefault EXCEPT !.alive_color = p[1],
                                                    !.dead_color = p[2]]
          /\ \E cells \in [1..(s[1] * s[2]) -> cell_colours] :
                images = (0 :> image_of(s[1], s[2], cells))
          /\ win = [width |-> s[1] * DefaultCellSize, height |-> s[2] * DefaultCellSize]
    /\ board_handle = 0
    /\ texture = 0
    /\ brush = 1
    /\ next_state = <<>>
    /\ previous_tick = 0
    /\ elapsed = 0
    /\ ui_events = <<>>
    /\ ui_show = TRUE
    /\ phase = StartOfFrame
    /\ pass = Idle
    /\ overflow_checks \in builds
    /\ status = "running"
    /\ last = [op |-> "setup", arg |-> "drawn", retained |-> 0]

InitRule == InitDrawn(RuleSizes, ValidColours, {DefaultAlive, DefaultDead}, {FALSE})

NextRule ==
    \/ process_cells /\ UNCHANGED phase
    \/ time_update /\ UNCHANGED phase

SpecRule == InitRule /\ [][NextRule]_vars

----------------------------------------------------------------------------
(* process_cells run one loop iteration at a time *)

\* Largest number of cells of a board drawn for the pass run step by step
MaxPassCells == 6

PassSizes ==
    {s \in (1..MaxPassCells) \X (1..MaxPassCells) : s[1] * s[2] <= MaxPassCells}

\* The image the loop evaluates cells on, were it the buffer being written
pass_source_in_place == [board_image EXCEPT !.data = next_state]

\* The image the loop evaluates cells on: `board`, borrowed before the loop
pass_source == board_image

\* Up to the loop: the gate, the unwrap of the board, the sizing of next_state
pass_begin ==
    /\ status = "running"
    /\ ~pass.active
    /\ IF gate_closed
       THEN UNCHANGED <<next_state, previous_tick, pass, status, last>>
       ELSE IF board_handle \notin DOMAIN images
       THEN /\ status' = "panicked"
            /\ previous_tick' = elapsed
            /\ last' = [op |-> "process_cells", arg |-> "unwrap",
                             retained |-> Len(next_state)]
            /\ UNCHANGED <<next_state, pass>>
       ELSE /\ previous_tick' = elapsed
            /\ next_state' = sized_next_state(board_image)
            /\ pass' = [active |-> TRUE, i |-> 0, start |-> board_image.data,
                        retained |-> Len(next_state)]
            /\ UNCHANGED <<status, last>>
    /\ UNCHANGED <<images, board_handle, texture, board_size, settings, brush, elapsed,
                   win, ui_events, ui_show, overflow_checks>>

\* One iteration of the loop
pass_cell ==
    /\ status = "running"
    /\ pass.active
    /\ pass.i < Len(board_image.data) \div 4
    /\ IF cell_state(pass_source, loop_x(board_size.rows, pass.i),
                     loop_y(board_size.rows, pass.i), settings) = "PANIC"
       THEN /\ status' = "panicked"
            /\ last' = [op |-> "process_cells", arg |-> "unwrap",
                             retained |-> Len(next_state)]
            /\ UNCHANGED <<next_state, pass>>
       ELSE /\ next_state' = write_cell(pass_source, board_size.rows, settings,
                                        next_state, pass.i)
            /\ pass' = [pass EXCEPT !.i = @ + 1]
            /\ UNCHANGED <<status, last>>
    /\ UNCHANGED <<images, board_handle, texture, board_size, settings, brush,
                   previous_tick, elapsed, win, ui_events, ui_show, overflow_checks>>

\* After the loop: board.data = next_state.clone()
pass_end ==
    /\ status = "running"
    /\ pass.active
    /\ pass.i >= Len(board_image.data) \div 4
    /\ images' = [images EXCEPT ![board_handle].data = next_state]
    /\ pass' = Idle
    /\ last' = [op |-> "process_cells", arg |-> "advanced", retained |-> pass.retained]
    /\ UNCHANGED <<board_handle, texture, board_size, settings, brush, next_state,
                   previous_tick, elapsed, win, ui_events, ui_show, overflow_checks, status>>

InitPass == InitDrawn(PassSizes, ValidColours, {DefaultAlive, DefaultDead}, {FALSE})

NextPass ==
    \/ pass_begin /\ UNCHANGED phase
    \/ pass_cell /\ UNCHANGED phase
    \/ pass_end /\ UNCHANGED phase
    \/ time_update /\ UNCHANGED phase

SpecPass == InitPass /\ [][NextPass]_vars

----------------------------------------------------------------------------
(* The program from startup, frame after frame *)

\* The windows the program is started in
Windows == {<<3, 3>>}

Keys == {"J", "K", "Escape"}

\* Where the cursor may be: outside the window, or at the first, the middle or
\* the last pixel of either axis
Cursors(window) ==
    {None} \cup ({0, window.width \div 2, window.width - 1}
                    \X {0, window.height \div 2, window.height - 1})

\* The same, the middle left out
CornerCursors(window) ==
    {None} \cup ({0, window.width - 1} \X {0, window.height - 1})

\* setup: the settings are the defaults, the board is created from the window and
\* the cell size, seeded, and added to the images; the brush has size 1
InitSetup(windows, builds) ==
    /\ \E window \in windows, rnd \in Draws :
          LET w == [width |-> window[1], height |-> window[2]]
              b == create_board(GameSettingsDefault, w)
          IN /\ win = w
             /\ images = (0 :> [b.image EXCEPT
                                   !.data = seed(b.image, GameSettingsDefault, rnd, FALSE).data])
             /\ board_size = [rows |-> b.rows, columns |-> b.columns]
    /\ settings = GameSettingsDefault
    /\ board_handle = 0
    /\ texture = 0
    /\ brush = 1
    /\ next_state = <<>>
    /\ previous_tick = 0
    /\ elapsed = 0
    /\ ui_events = <<>>
    /\ ui_show = TRUE
    /\ phase = StartOfFrame
    /\ pass = Idle
    /\ overflow_checks \in builds
    /\ status = "running"
    /\ last = [op |-> "setup", arg |-> "seeded", retained |-> 0]

Init == InitSetup(Windows, BOOLEAN)

frame_time ==
    /\ runs("First", "time_system")
    /\ \E delta \in 0..(MaxTime - elapsed) : time_advance(delta)

frame_process_cells == runs("Update", "process_cells") /\ process_cells

frame_egui_init == runs("PostUpdate", "egui_init") /\ egui_init

frame_ui_handle_events ==
    /\ runs("PostUpdate", "ui::handle_events")
    /\ \E u_pressed \in BOOLEAN : ui_handle_events(u_pressed)

frame_handle_ui_events == runs("Last", "handle_ui_events") /\ handle_ui_events

\* What handle_events may be given in a frame; the cursor and the overlay are read
\* only while the left button is held, and the brush is kept to MaxBrush
pointer_and_keys ==
    \E keys \in SUBSET Keys, left \in BOOLEAN, over_ui \in BOOLEAN,
       cursor \in CornerCursors(win) :
        /\ brush_keys(brush, keys) <= MaxBrush
        /\ ~left => (~over_ui /\ cursor = None)
        /\ over_ui => cursor = None
        /\ handle_events(keys, left, over_ui, cursor)

frame_handle_events == runs("Last", "handle_events") /\ pointer_and_keys

Next ==
    \/ frame_time
    \/ frame_process_cells
    \/ frame_egui_init
    \/ frame_ui_handle_events
    \/ frame_handle_ui_events
    \/ frame_handle_events

Spec == Init /\ [][Next]_vars

----------------------------------------------------------------------------
(* The reconfiguration manager under any request *)

\* The board the manager is started on: 2 x 1, of any palette colours, in a
\* window of 6 x 3
MgrSizes == {<<2, 1>>}

\* A time step below one unit of the clock
MgrTimeSteps == {0}

\* Cell sizes: 0 divides by zero, 2 gives 3 x 1, 3 gives 2 x 1, 6 gives 1 x 0
MgrCellSizes == {0, 2, 3, 6}

\* The colour requests: a swap, a change of the alive colour alone, and one whose
\* colours are equal
MgrColours ==
    {<<DefaultDead, DefaultAlive>>, <<AlphaOnly, DefaultDead>>, <<DefaultDead, DefaultDead>>}

\* Every request the manager may be handed
MgrEvents ==
    {<<"ChangeColor", c[1], c[2]>> : c \in MgrColours}
        \cup {<<"ChangeSeed", k>> : k \in Seeds}
        \cup {<<"ChangeTimestep", t>> : t \in MgrTimeSteps}
        \cup {<<"ChangeCellSize", c>> : c \in MgrCellSizes}

\* A frame's requests: one, or the two the settings window may send together
MgrBatches ==
    {<<ev>> : ev \in MgrEvents}
        \cup {<<c, k>> : c \in {<<"ChangeColor", DefaultDead, DefaultAlive>>},
                        k \in {<<"ChangeSeed", kind>> : kind \in Seeds}}

\* Requests are sent and, in the same frame, read by handle_ui_events
deliver ==
    /\ ui_events = <<>>
    /\ \E evs \in MgrBatches : handle_ui_events_reading(evs)

\* A stroke of the brush as it is
stroke ==
    \E cursor \in Cursors(win) \ {None} : handle_events({}, TRUE, FALSE, cursor)

InitMgr == InitDrawn(MgrSizes, {<<DefaultAlive, DefaultDead>>}, Palette, BOOLEAN)

NextMgr ==
    \/ deliver /\ UNCHANGED phase
    \/ process_cells /\ UNCHANGED phase
    \/ time_update /\ UNCHANGED phase
    \/ stroke /\ UNCHANGED phase

SpecMgr == InitMgr /\ [][NextMgr]_vars

----------------------------------------------------------------------------
(* Colours: the rule engine, a cell at a time, and ChangeColor on a 2 x 2 board
   of any palette colours *)

ColourSizes == {<<2, 2>>}

\* The colour requests: any two palette colours, equal ones too
ColourEvents == {<<"ChangeColor", a, d>> : a \in Palette, d \in Palette}

deliver_colour ==
    /\ ui_events = <<>>
    /\ \E ev \in ColourEvents : handle_ui_events_reading(<<ev>>)

InitColour == InitDrawn(ColourSizes, {<<DefaultAlive, DefaultDead>>}, Palette, {FALSE})

NextColour ==
    \/ pass_begin /\ UNCHANGED phase
    \/ pass_cell /\ UNCHANGED phase
    \/ pass_end /\ UNCHANGED phase
    \/ time_update /\ UNCHANGED phase
    \/ deliver_colour /\ UNCHANGED phase

SpecColour == InitColour /\ [][NextColour]_vars

----------------------------------------------------------------------------
(* Seeding: the program started in windows whose boards the guns fit, or just
   do not *)

\* With the default cell size: 36 x 9 (the Gosper gun, exactly), 33 x 20 (the
\* Simkin gun, exactly) and 37 x 21 (both, with room to spare)
GunWindows == {<<108, 27>>, <<99, 60>>, <<111, 63>>}

\* The requests: every seed
GunEvents == {<<"ChangeSeed", k>> : k \in Seeds}

deliver_gun ==
    /\ ui_events = <<>>
    /\ \E ev \in GunEvents : handle_ui_events_reading(<<ev>>)

\* A stroke of the brush as it is, at the first pixel of the window
stroke_gun == handle_events({}, TRUE, FALSE, <<0, 0>>)

InitGun == InitSetup(GunWindows, BOOLEAN)

NextGun ==
    \/ deliver_gun /\ UNCHANGED phase
    \/ stroke_gun /\ UNCHANGED phase

SpecGun == InitGun /\ [][NextGun]_vars

----------------------------------------------------------------------------
(* The Gosper gun on the 40 x 20 board, advanced tick after tick *)

\* With the default cell size: 40 x 20
GosperWindows == {<<120, 60>>}

\* The clock stops being advanced at this reading: four ticks of two time steps
MaxGosperTime == 8

\* A frame that takes two time steps (0.06 s): the gate is open at the next tick
frame_of_two_steps ==
    /\ elapsed < MaxGosperTime
    /\ time_advance(2 * DefaultTimeStep)

deliver_gosper ==
    /\ ui_events = <<>>
    /\ handle_ui_events_reading(<< <<"ChangeSeed", "GosperGliderGun">> >>)

InitGosper == InitSetup(GosperWindows, BOOLEAN)

NextGosper ==
    \/ deliver_gosper /\ UNCHANGED phase
    \/ process_cells /\ UNCHANGED phase
    \/ frame_of_two_steps /\ UNCHANGED phase

SpecGosper == InitGosper /\ [][NextGosper]_vars

----------------------------------------------------------------------------
(* Blinkers: boards whose only alive cells are three in a line *)

\* Largest width and height of the boards a blinker is drawn on
MaxBlinkerSide == 4

BlinkerSizes == (1..MaxBlinkerSide) \X (1..MaxBlinkerSide)

\* The three cells in a line about the middle cell m: "h" along x, "v" along y
Line(m, o) ==
    IF o = "h"
    THEN {<<m[1] - 1, m[2]>>, m, <<m[1] + 1, m[2]>>}
    ELSE {<<m[1], m[2] - 1>>, m, <<m[1], m[2] + 1>>}

\* The lines that lie on a rows x columns board
Blinkers(rows, columns) ==
    {l \in {Line(m, o) : m \in (0..(rows - 1)) \X (0..(columns - 1)), o \in {"h", "v"}} :
        l \subseteq (0..(rows - 1)) \X (0..(columns - 1))}

\* The image of a rows x columns board whose cells `alive` are alive_color and
\* whose other cells are dead_color
board_of(rows, columns, st, alive) ==
    image_of(rows, columns,
             [i \in 1..(rows * columns) |->
                 IF <<(i - 1) % rows, (i - 1) \div rows>> \in alive
                 THEN st.alive_color
                 ELSE st.dead_color])

\* The colours of the settings: the defaults, and two that differ in the alpha
\* channel alone
BlinkerColours == {<<DefaultAlive, DefaultDead>>, <<AlphaOnly, DefaultAlive>>}

\* A board that holds a blinker and nothing else
InitBlinker ==
    /\ \E s \in BlinkerSizes, p \in BlinkerColours :
          /\ board_size = [rows |-> s[1], columns |-> s[2]]
          /\ settings = [GameSettingsDefault EXCEPT !.alive_color = p[1],
                                                    !.dead_color = p[2]]
          /\ \E l \in Blinkers(s[1], s[2]) :
                images = (0 :> board_of(s[1], s[2],
                                        [alive_color |-> p[1], dead_color |-> p[2]], l))
          /\ win = [width |-> s[1] * DefaultCellSize, height |-> s[2] * DefaultCellSize]
    /\ board_handle = 0
    /\ texture = 0
    /\ brush = 1
    /\ next_state = <<>>
    /\ previous_tick = 0
    /\ elapsed = 0
    /\ ui_events = <<>>
    /\ ui_show = TRUE
    /\ phase = StartOfFrame
    /\ pass = Idle
    /\ overflow_checks = FALSE
    /\ status = "running"
    /\ last = [op |-> "setup", arg |-> "drawn", retained |-> 0]

NextBlinker ==
    \/ process_cells /\ UNCHANGED phase
    \/ frame_of_two_steps /\ UNCHANGED phase

SpecBlinker == InitBlinker /\ [][NextBlinker]_vars

----------------------------------------------------------------------------
(* Cell size changes in a window that is resized *)

\* The sizes the window takes.  With cell size 3 the boards are 36 x 9 and
\* 36 x 12, which the Gosper gun fits; with cell size 4 they are 27 x 7 and
\* 27 x 9, which no gun fits
ResizeWindows == {<<108, 28>>, <<109, 36>>}

ResizeCellSizes == {3, 4}

\* The requests: a change of cell size under the seed of startup (Random), or
\* after a change to the seed that does nothing or to a gun
ResizeEvents ==
    {<<"ChangeSeed", k>> : k \in {"Spaceship", "GosperGliderGun"}}
        \cup {<<"ChangeCellSize", c>> : c \in ResizeCellSizes}

\* The window is given a new size (the WindowResized event makes handle_events
\* resize the sprite; the board is left as it is)
window_resized ==
    /\ status = "running"
    /\ ~pass.active
    /\ \E window \in ResizeWindows :
          /\ window # <<win.width, win.height>>
          /\ win' = [width |-> window[1], height |-> window[2]]
    /\ UNCHANGED <<images, board_handle, texture, board_size, settings, brush, next_state,
                   previous_tick, elapsed, ui_events, ui_show, pass, overflow_checks,
                   status, last>>

\* ui_event.send(ev): the event is queued for handle_ui_events
send_event(ev) ==
    /\ status = "running"
    /\ ~pass.active
    /\ ui_events' = Append(ui_events, ev)
    /\ UNCHANGED <<images, board_handle, texture, board_size, settings, brush, next_state,
                   previous_tick, elapsed, win, ui_show, pass, overflow_checks,
                   status, last>>

\* A request is sent, one a frame
send_resize ==
    /\ ui_events = <<>>
    /\ \E ev \in ResizeEvents : send_event(ev)

\* handle_ui_events reads the request sent in its frame
handle_resize ==
    /\ ui_events # <<>>
    /\ handle_ui_events

\* The window is resized between two frames
resized_between_frames ==
    /\ ui_events = <<>>
    /\ window_resized

InitResize == InitSetup({<<108, 28>>}, BOOLEAN)

NextResize ==
    \/ send_resize /\ UNCHANGED phase
    \/ handle_resize /\ UNCHANGED phase
    \/ resized_between_frames /\ UNCHANGED phase
    \/ stroke_gun /\ UNCHANGED phase

SpecResize == InitResize /\ [][NextResize]_vars

----------------------------------------------------------------------------
(* The brush on a 4 x 4 board *)

\* With the default cell size: 4 x 4
BrushWindows == {<<12, 12>>}

\* Where the cursor is: pixel 0 is cell 0, pixel 5 is cell 2, and pixel 11, the
\* last, rounds to 4, one past the last cell
BrushCursors == {<<0, 0>>, <<5, 5>>, <<0, 5>>, <<5, 11>>, <<11, 11>>}

BrushKeys == SUBSET {"J", "K"}

\* The left button is held over the board; the brush is kept to MaxBrush
stroke_brush ==
    \E keys \in BrushKeys, cursor \in BrushCursors :
        /\ brush_keys(brush, keys) <= MaxBrush
        /\ handle_events(keys, TRUE, FALSE, cursor)

\* The left button is held while the pointer is over an egui area
stroke_over_ui ==
    \E keys \in BrushKeys, cursor \in BrushCursors \cup {None} :
        /\ brush_keys(brush, keys) <= MaxBrush
        /\ handle_events(keys, TRUE, TRUE, cursor)

InitBrush == InitSetup(BrushWindows, {FALSE})

NextBrush ==
    \/ stroke_brush /\ UNCHANGED phase
    \/ stroke_over_ui /\ UNCHANGED phase

SpecBrush == InitBrush /\ [][NextBrush]_vars

----------------------------------------------------------------------------
(* The brush keys alone, over the whole range of the u8 *)

KeysWindows == {<<3, 3>>}

\* J, K or both are held in a frame in which no button is
keys_held ==
    \E keys \in BrushKeys \ {{}} : handle_events(keys, FALSE, FALSE, None)

InitKeys == InitSetup(KeysWindows, {FALSE})

NextKeys == keys_held /\ UNCHANGED phase

SpecKeys == InitKeys /\ [][NextKeys]_vars

----------------------------------------------------------------------------
(* The tick over several frames on a 2 x 2 board *)

TickWindows == {<<6, 6>>}

\* Largest time the clock of the frames reaches
MaxTickTime == 4

\* The time steps set between the ticks: the default and twice the default
TickTimeSteps == {DefaultTimeStep, 2 * DefaultTimeStep}

\* should_next_tick of main.rs, the run condition of its process_cells: whether
\* the systems run, and the previous_tick it keeps
should_next_tick(t, previous, now) ==
    IF now - previous >= t
    THEN [run |-> TRUE, previous_tick |-> now]
    ELSE [run |-> FALSE, previous_tick |-> previous]

\* The clock of a frame: any time up to MaxTickTime, or none, has passed
tick_frame_time ==
    /\ runs("First", "time_system")
    /\ \E delta \in 0..(MaxTickTime - elapsed) : time_advance(delta)

\* Nothing is edited in the settings window
tick_egui_init ==
    /\ runs("PostUpdate", "egui_init")
    /\ egui_init
    /\ ui_events' = ui_events

\* U is not pressed
tick_ui_handle_events == runs("PostUpdate", "ui::handle_events") /\ ui_handle_events(FALSE)

\* No request is pending, or one to change the time step is
tick_handle_ui_events ==
    /\ runs("Last", "handle_ui_events")
    /\ ui_events = <<>>
    /\ \E evs \in {<<>>} \cup {<< <<"ChangeTimestep", t>> >> : t \in TickTimeSteps} :
          handle_ui_events_reading(evs)

\* No key and no button is held
tick_handle_events == runs("Last", "handle_events") /\ handle_events({}, FALSE, FALSE, None)

InitTick == InitSetup(TickWindows, {FALSE})

NextTick ==
    \/ tick_frame_time
    \/ frame_process_cells
    \/ tick_egui_init
    \/ tick_ui_handle_events
    \/ tick_handle_ui_events
    \/ tick_handle_events

SpecTick == InitTick /\ [][NextTick]_vars

----------------------------------------------------------------------------
(* The three writers of the board, process_cells one loop iteration at a time *)

\* With the default cell size: 2 x 2
SchedWindows == {<<6, 6>>}

\* A swap of the colours, the two seeds that fit and two cell sizes: 2 x 2, 1 x 1
SchedEvents ==
    {<<"ChangeColor", DefaultDead, DefaultAlive>>,
     <<"ChangeSeed", "Random">>, <<"ChangeSeed", "Spaceship">>,
     <<"ChangeCellSize", 3>>, <<"ChangeCellSize", 6>>}

\* The first and the last pixel of the window
SchedCursors == {<<0, 0>>, <<5, 5>>}

\* A request is sent and read by handle_ui_events
sched_deliver ==
    /\ ui_events = <<>>
    /\ \E ev \in SchedEvents : handle_ui_events_reading(<<ev>>)

\* The left button is held over the board
sched_stroke ==
    \E cursor \in SchedCursors : handle_events({}, TRUE, FALSE, cursor)

InitSched == InitSetup(SchedWindows, {FALSE})

NextSched ==
    \/ pass_begin /\ UNCHANGED phase
    \/ pass_cell /\ UNCHANGED phase
    \/ pass_end /\ UNCHANGED phase
    \/ sched_deliver /\ UNCHANGED phase
    \/ sched_stroke /\ UNCHANGED phase
    \/ frame_of_two_steps /\ UNCHANGED phase

SpecSched == InitSched /\ [][NextSched]_vars

----------------------------------------------------------------------------
(* The rule engine of main.rs: one entity a cell, looked up in EntityMap *)

\* usize::MAX, which stands at 2^31 - 1 here: like usize::MAX of either width it
\* is above the length of every Vec
usize_MAX == 2147483647

\* `n as usize` of an i32, were the sign dropped
as_usize_magnitude(n) == IF n < 0 THEN -n ELSE n

\* `n as usize` of an i32 n >= -1: -1 is sign-extended to usize::MAX
as_usize(n) == IF n < 0 THEN usize_MAX + (n + 1) ELSE n

\* Vec::get: Some of the element at index, None at and after the length
Vec_get(v, index) == IF index < Len(v) THEN <<v[index + 1]>> ELSE None

\* Option::and_then
and_then(option, f(_)) == IF option = None THEN None ELSE f(option[1])

\* The matrix setup builds: v[i][j] is the entity of the cell at x = i, y = j
EntityMap(rows, columns) ==
    [i \in 1..rows |-> [j \in 1..columns |-> (i - 1) * columns + (j - 1)]]

\* The Cell components of the entities of a board: ALIVE where the cell of the
\* board is, next_state None
CellsOf(image, st, rows, columns) ==
    [e \in 0..(rows * columns - 1) |->
        [state |-> State_cell_state(get_pixel(image, e \div columns, e % columns), st),
         next_state |-> None]]

\* is_cell_alive of main.rs: the neighbours that are Some and ALIVE are counted
is_cell_alive(cell, neighbours) ==
    LET alive_count ==
            Cardinality({k \in 1..Len(neighbours) :
                            neighbours[k] # None /\ neighbours[k][1].state = "ALIVE"})
    IN IF cell.state = "ALIVE"
       THEN IF alive_count < 2 THEN FALSE
            ELSE alive_count = 2 \/ alive_count = 3
       ELSE alive_count = 3

\* The eight lookups of process_cells of main.rs for the cell at
\* (row_index, col_index)
main_neighbours(v, cells, row_index, col_index) ==
    LET row == v[row_index + 1]
        prev_row == Vec_get(v, as_usize(row_index - 1))
        next_row == Vec_get(v, row_index + 1)
        cell_at(r, index) == and_then(Vec_get(r, index), LAMBDA e : <<cells[e]>>)
        before == as_usize(col_index - 1)
    IN <<and_then(prev_row, LAMBDA f : cell_at(f, before)),
         and_then(prev_row, LAMBDA f : cell_at(f, col_index + 0)),
         and_then(prev_row, LAMBDA f : cell_at(f, col_index + 1)),
         cell_at(row, before),
         cell_at(row, col_index + 1),
         and_then(next_row, LAMBDA f : cell_at(f, before)),
         and_then(next_row, LAMBDA f : cell_at(f, col_index + 0)),
         and_then(next_row, LAMBDA f : cell_at(f, col_index + 1))>>

\* The first loop of process_cells of main.rs, from the k-th cell on, rows of the
\* matrix first: the cell is given its next_state, computed from the state of its
\* neighbours
RECURSIVE main_first_loop(_, _, _)
main_first_loop(v, cells, k) ==
    LET width == IF Len(v) = 0 THEN 0 ELSE Len(v[1])
    IN IF k >= Len(v) * width
       THEN cells
       ELSE LET row_index == k \div width
                col_index == k % width
                entity == v[row_index + 1][col_index + 1]
                is_alive == is_cell_alive(cells[entity],
                                          main_neighbours(v, cells, row_index, col_index))
            IN main_first_loop(v,
                               [cells EXCEPT ![entity].next_state =
                                   <<IF is_alive THEN "ALIVE" ELSE "DEAD">>],
                               k + 1)

\* process_cells of main.rs: the first loop, then the loop that copies next_state
\* to state
main_process_cells(v, cells) ==
    LET assigned == main_first_loop(v, cells, 0)
    IN [e \in DOMAIN cells |-> [assigned[e] EXCEPT !.state = assigned[e].next_state[1]]]

----------------------------------------------------------------------------
(* Every operation on the board of the program, from startup *)

\* With the default cell size: 2 x 2
OpsWindows == {<<6, 6>>}

\* The colour requests: a swap, a change of the alpha of the alive colour alone,
\* and one whose colours are equal
OpsColours ==
    {<<DefaultDead, DefaultAlive>>, <<AlphaOnly, DefaultDead>>, <<DefaultDead, DefaultDead>>}

\* Every kind of request: the colours, every seed, the default time step and
\* twice it, the cell sizes of a 2 x 2 and of a 1 x 1 board
OpsEvents ==
    {<<"ChangeColor", c[1], c[2]>> : c \in OpsColours}
        \cup {<<"ChangeSeed", k>> : k \in Seeds}
        \cup {<<"ChangeTimestep", t>> : t \in TickTimeSteps}
        \cup {<<"ChangeCellSize", c>> : c \in {3, 6}}

\* A request is sent and read by handle_ui_events
ops_deliver ==
    /\ ui_events = <<>>
    /\ \E ev \in OpsEvents : handle_ui_events_reading(<<ev>>)

\* The left button is held over the board, at the first or the last pixel
ops_stroke ==
    \E cursor \in SchedCursors : handle_events({}, TRUE, FALSE, cursor)

InitOps == InitSetup(OpsWindows, BOOLEAN)

NextOps ==
    \/ process_cells /\ UNCHANGED phase
    \/ ops_deliver /\ UNCHANGED phase
    \/ ops_stroke /\ UNCHANGED phase
    \/ time_update /\ UNCHANGED phase

SpecOps == InitOps /\ [][NextOps]_vars

----------------------------------------------------------------------------
(* The patterns on the boards they just fit and on slightly larger ones *)

\* How far above the width or height of a pattern the boards drawn go
MaxFitSlack == 1

\* Rows and columns from the sizes of the two patterns up to MaxFitSlack above
FitRows ==
    UNION {Len(gun[1])..(Len(gun[1]) + MaxFitSlack) : gun \in {GosperGliderGun, SimkinGliderGun}}

FitColumns ==
    UNION {Len(gun)..(Len(gun) + MaxFitSlack) : gun \in {GosperGliderGun, SimkinGliderGun}}

\* The windows that give these boards with the default cell size
FitWindows == {<<r * DefaultCellSize, c * DefaultCellSize>> : r \in FitRows, c \in FitColumns}

\* The requests: the two patterns and Spaceship, which clears the board
FitEvents == {<<"ChangeSeed", k>> : k \in {"GosperGliderGun", "SimkinGliderGun", "Spaceship"}}

deliver_fit ==
    /\ ui_events = <<>>
    /\ \E ev \in FitEvents : handle_ui_events_reading(<<ev>>)

InitFit == InitSetup(FitWindows, BOOLEAN)

NextFit == deliver_fit /\ UNCHANGED phase

SpecFit == InitFit /\ [][NextFit]_vars

----------------------------------------------------------------------------
(* Frames without end on a board of one or two cells: the clock, the tick and
   the requests *)

\* With the default cell size: 1 x 1; with cell size 2: 2 x 1
LiveWindows == {<<4, 3>>}

\* The reading at which the clock stops increasing; the frames go on
MaxLiveTime == 5

\* The requests handled in a frame: a time step, the seed that clears the board,
\* the colours exchanged, a cell size that gives a board (2, 3) and one that ends
\* the program (0)
LiveEvents ==
    {<<"ChangeTimestep", t>> : t \in TickTimeSteps}
    \cup {<<"ChangeSeed", "Spaceship">>,
          <<"ChangeColor", DefaultDead, DefaultAlive>>,
          <<"ChangeCellSize", 0>>, <<"ChangeCellSize", 2>>, <<"ChangeCellSize", 3>>}

\* The clock of a frame in which no time has passed, as in the first frame
live_time_stalls ==
    /\ runs("First", "time_system")
    /\ time_advance(0)

\* The clock of a frame in which time has passed
live_time_passes ==
    /\ runs("First", "time_system")
    /\ elapsed < MaxLiveTime
    /\ \E delta \in 1..(MaxLiveTime - elapsed) : time_advance(delta)

\* No request is pending, or one of LiveEvents is
live_handle_ui_events ==
    /\ runs("Last", "handle_ui_events")
    /\ ui_events = <<>>
    /\ \E evs \in {<<>>} \cup {<<ev>> : ev \in LiveEvents} : handle_ui_events_reading(evs)

InitLive == InitSetup(LiveWindows, {FALSE})

NextLive ==
    \/ live_time_stalls
    \/ live_time_passes
    \/ frame_process_cells
    \/ tick_egui_init
    \/ tick_ui_handle_events
    \/ live_handle_ui_events
    \/ tick_handle_events

\* The runner goes from one schedule to the next and from one frame to the next
\* for as long as the program runs (weak fairness of the frame), and the clock it
\* reads does not stall for ever (strong fairness of the frames in which time
\* passes: they are enabled once in every frame, not continuously)
SpecLive ==
    /\ InitLive
    /\ [][NextLive]_vars
    /\ WF_vars(NextLive)
    /\ SF_vars(live_time_passes)

----------------------------------------------------------------------------
(* Vocabulary of the properties *)

\* The cells of a rows x columns grid
Grid(rows, columns) == (0..(rows - 1)) \X (0..(columns - 1))

\* The four bytes of cell (x,y) of a byte buffer laid out in rows of `rows` cells
CellBytes(data, rows, x, y) ==
    LET off == (y * rows + x) * 4
    IN <<data[off + 1], data[off + 2], data[off + 3], data[off + 4]>>

\* The cells of the buffer whose four bytes are `colour`
CellsOfColour(data, rows, columns, colour) ==
    {c \in Grid(rows, columns) : CellBytes(data, rows, c[1], c[2]) = colour}

Abs(n) == IF n < 0 THEN -n ELSE n

\* The on-grid neighbours of a cell: the cells of the grid at distance 1
GridNeighbours(rows, columns, c) ==
    {d \in Grid(rows, columns) :
        d # c /\ Abs(d[1] - c[1]) <= 1 /\ Abs(d[2] - c[2]) <= 1}

\* Conway's rule on a bounded grid whose off-grid cells are dead
ConwayNext(rows, columns, alive) ==
    {c \in Grid(rows, columns) :
        LET n == Cardinality(GridNeighbours(rows, columns, c) \cap alive)
        IN \/ c \in alive /\ n \in {2, 3}
           \/ c \notin alive /\ n = 3}

\* The step just taken is a pass of process_cells that advanced the board
Advanced ==
    last'.op = "process_cells" /\ last'.arg = "advanced" /\ previous_tick' # previous_tick

\* C1: one advance yields the board in which a cell is alive_color iff Conway's
\* rule on the bounded grid (off-grid cells dead) makes it alive, given the cells
\* that were alive_color before; every other cell is dead_color.
C1_AdvanceIsConway ==
    [][Advanced =>
        LET rows == board_size.rows
            columns == board_size.columns
            before == CellsOfColour(board_image.data, rows, columns, settings.alive_color)
            after == board_image'.data
            born == ConwayNext(rows, columns, before)
        IN /\ Len(after) = rows * columns * 4
           /\ \A c \in Grid(rows, columns) :
                 CellBytes(after, rows, c[1], c[2]) =
                     IF c \in born THEN settings.alive_color ELSE settings.dead_color
    ]_vars

\* C1 witness: an advance of a 3 x 3 board left exactly the centre column alive:
\* cells were born, survived and died
C1_Witness ==
    /\ last.op = "process_cells" /\ last.arg = "advanced"
    /\ board_size = [rows |-> 3, columns |-> 3]
    /\ CellsOfColour(board_image.data, 3, 3, settings.alive_color) = {<<1, 0>>, <<1, 1>>, <<1, 2>>}

\* C3: the neighbours a cell counts are exactly its on-grid neighbours that are
\* alive: nothing is counted across the left or right edge into an adjacent row,
\* nor off the top or bottom, and the corner (0,0) counts at most (1,0), (0,1), (1,1).
C3_NoWrap ==
    LET rows == board_size.rows
        columns == board_size.columns
        alive == CellsOfColour(board_image.data, rows, columns, settings.alive_color)
    IN /\ \A c \in Grid(rows, columns) :
             neighbours_alive(board_image, c[1], c[2], settings) =
                 Cardinality(GridNeighbours(rows, columns, c) \cap alive)
       /\ neighbours_alive(board_image, 0, 0, settings) =
             Cardinality({<<1, 0>>, <<0, 1>>, <<1, 1>>} \cap alive)

\* C3 witness: a 3 x 3 board whose cells are all alive, so that every off-grid
\* neighbour of an edge cell would, wrapped, land on an alive cell; the tick that
\* follows leaves the four corners alive
C3_Witness ==
    /\ last.op = "process_cells" /\ last.arg = "advanced"
    /\ board_size = [rows |-> 3, columns |-> 3]
    /\ CellsOfColour(board_image.data, 3, 3, settings.alive_color) =
          {<<0, 0>>, <<2, 0>>, <<0, 2>>, <<2, 2>>}

\* The colour Conway's rule gives cell number i (row-major) of a board whose bytes
\* were `data` when the pass started
ConwayColour(data, rows, columns, st, i) ==
    LET alive == CellsOfColour(data, rows, columns, st.alive_color)
    IN IF <<i % rows, i \div rows>> \in ConwayNext(rows, columns, alive)
       THEN st.alive_color
       ELSE st.dead_color

\* C2: from the start of a pass to its swap board.data is not written; every cell
\* evaluated so far got, in next_state, the value computed from the board as it
\* was when the pass started; and board.data changes only by the swap that follows
\* the evaluation of all rows*columns cells, which installs next_state.
C2_FrozenSnapshot ==
    [][/\ pass'.active =>
            /\ board_image'.data = pass'.start
            /\ \A j \in 0..(pass'.i - 1) :
                  CellBytes(next_state', board_size.rows, j % board_size.rows,
                            j \div board_size.rows)
                      = ConwayColour(pass'.start, board_size.rows, board_size.columns,
                                     settings, j)
       /\ board_image'.data # board_image.data =>
            /\ pass.active /\ ~pass'.active
            /\ pass.i = board_size.rows * board_size.columns
            /\ board_image'.data = next_state
    ]_vars

\* C2 witness: a pass over a 3 x 2 board has evaluated four cells, the first of
\* which changes (alive at the start, dead in next_state), and board.data still
\* holds the cell as it was
C2_Witness ==
    /\ pass.active /\ pass.i = 4
    /\ board_size = [rows |-> 3, columns |-> 2]
    /\ CellBytes(pass.start, 3, 0, 0) = settings.alive_color
    /\ CellBytes(next_state, 3, 0, 0) = settings.dead_color
    /\ CellBytes(board_image.data, 3, 0, 0) = settings.alive_color

\* C4: while the program runs, the board buffer has rows*columns*4 bytes for the
\* rows and columns of BoardSize, whatever advances, brush strokes and requests
\* came before; an advance that follows a ChangeCellSize does not install the
\* retained next_state of the old length.
C4_BufferLength ==
    (status = "running" /\ board_handle \in DOMAIN images) =>
        /\ Len(board_image.data) = board_size.rows * board_size.columns * 4
        /\ board_image.width = board_size.rows
        /\ board_image.height = board_size.columns

\* C4 witness: an advance of a 2 x 1 board that entered with a next_state of 12
\* bytes, retained from an advance of the 3 x 1 board a ChangeCellSize replaced
C4_Witness ==
    /\ status = "running"
    /\ last.op = "process_cells" /\ last.arg = "advanced" /\ last.retained = 12
    /\ board_size = [rows |-> 2, columns |-> 1]
    /\ Len(board_image.data) = 8
    /\ Len(next_state) = 8

\* The step just taken evaluated cell pass.i of a pass
Evaluated == pass.active /\ pass'.active /\ pass'.i = pass.i + 1

\* Cell number i, as a grid position
CellAt(rows, i) == <<i % rows, i \div rows>>

\* The cells of the buffer that are byte for byte `colour`
ExactlyColoured(data, rows, columns, colour) ==
    {c \in Grid(rows, columns) :
        \A b \in 1..4 : data[(c[2] * rows + c[1]) * 4 + b] = colour[b]}

\* C5: a cell is classified alive iff its four bytes equal alive_color.  The rule
\* engine, evaluating a cell, counts as alive exactly the neighbours whose four
\* bytes are alive_color and treats the cell itself so; ChangeColor keeps alive
\* exactly those cells.  A cell that differs in the alpha channel alone, or is of
\* a third colour, is dead to both.
C5_ExactClassification ==
    [][LET rows == board_size.rows
           columns == board_size.columns
       IN /\ Evaluated =>
                LET alive == ExactlyColoured(pass.start, rows, columns, settings.alive_color)
                    c == CellAt(rows, pass.i)
                    n == Cardinality(GridNeighbours(rows, columns, c) \cap alive)
                    lives == IF c \in alive THEN n \in {2, 3} ELSE n = 3
                IN CellBytes(next_state', rows, c[1], c[2]) =
                       IF lives THEN settings.alive_color ELSE settings.dead_color
          /\ \A ev \in ColourEvents :
                handle_ui_events_reading(<<ev>>) =>
                    LET alive == ExactlyColoured(board_image.data, rows, columns,
                                                 settings.alive_color)
                    IN \A c \in Grid(rows, columns) :
                          CellBytes(board_image'.data, rows, c[1], c[2]) =
                              IF c \in alive THEN ev[2] ELSE ev[3]
    ]_vars

\* C5 witness: a pass over a 2 x 2 board that started with two alive cells, one
\* cell that differs from alive_color in the alpha channel alone and one dead
\* cell has evaluated all four cells; the dead cell, which would have had three
\* alive neighbours, stays dead
C5_Witness ==
    /\ pass.active /\ pass.i = 4
    /\ board_size = [rows |-> 2, columns |-> 2]
    /\ settings.alive_color = DefaultAlive /\ settings.dead_color = DefaultDead
    /\ CellBytes(pass.start, 2, 0, 0) = DefaultAlive
    /\ CellBytes(pass.start, 2, 1, 0) = DefaultAlive
    /\ CellBytes(pass.start, 2, 0, 1) = AlphaOnly
    /\ CellBytes(pass.start, 2, 1, 1) = DefaultDead
    /\ CellBytes(next_state, 2, 1, 1) = DefaultDead
    /\ CellBytes(next_state, 2, 0, 1) = DefaultDead

\* C6: after ChangeColor(newAlive, newDead) with newAlive # newDead the cells of
\* colour newAlive are exactly the cells that were of the old alive_color, every
\* other cell is newDead, and the settings hold the two colours; so too when the
\* colours are swapped.
C6_ChangeColor ==
    [][\A ev \in ColourEvents :
          (ev[2] # ev[3] /\ handle_ui_events_reading(<<ev>>)) =>
              LET rows == board_size.rows
                  columns == board_size.columns
                  was_alive == CellsOfColour(board_image.data, rows, columns,
                                             settings.alive_color)
              IN /\ CellsOfColour(board_image'.data, rows, columns, ev[2]) = was_alive
                 /\ CellsOfColour(board_image'.data, rows, columns, ev[3]) =
                        Grid(rows, columns) \ was_alive
                 /\ settings' = [settings EXCEPT !.alive_color = ev[2],
                                                 !.dead_color = ev[3]]
                 /\ UNCHANGED <<board_size, board_handle>>
    ]_vars

\* C6 witness: the default colours have been swapped, on a board that has an
\* alive and a dead cell
C6_Witness ==
    /\ settings.alive_color = DefaultDead /\ settings.dead_color = DefaultAlive
    /\ ~pass.active /\ last.op = "setup"
    /\ CellsOfColour(board_image.data, 2, 2, DefaultDead) = {<<0, 0>>, <<1, 1>>}
    /\ CellsOfColour(board_image.data, 2, 2, DefaultAlive) = {<<1, 0>>, <<0, 1>>}

\* C7: a ChangeColor whose two colours are equal changes no byte of the board and
\* no setting.
C7_EqualColoursRejected ==
    [][\A ev \in ColourEvents :
          (ev[2] = ev[3] /\ handle_ui_events_reading(<<ev>>)) =>
              UNCHANGED <<images, settings>>
    ]_vars

\* C8: from startup with the default settings, whatever the settings window
\* sends, frame after frame, and handle_ui_events consumes, alive_color and
\* dead_color differ.
C8_ColoursDiffer == settings.alive_color # settings.dead_color

\* C8 witness: a ChangeColor sent by the settings window has been consumed: the
\* default colours are swapped
C8_Witness ==
    /\ status = "running"
    /\ ui_events = <<>>
    /\ settings.alive_color = DefaultDead
    /\ settings.dead_color = DefaultAlive

\* The seed kinds that are patterns, and the pattern of each
Guns == {"GosperGliderGun", "SimkinGliderGun"}

GunOf(kind) == IF kind = "GosperGliderGun" THEN GosperGliderGun ELSE SimkinGliderGun

\* A pattern fits a board that has at least its width and its height
Fits(rows, columns, gun) == rows >= Len(gun[1]) /\ columns >= Len(gun)

\* Where the box of a pattern starts on an axis: the centre less half the size
BoxStart(dim, size) == (dim \div 2) - (size \div 2)

\* Every cell of the buffer is dead_color
AllDead(data, st) == \A k \in 1..Len(data) : data[k] = st.dead_color[((k - 1) % 4) + 1]

\* The colour of cell c of a rows x columns board that is dead but for the
\* pattern, which lies in the box of its size that starts at BoxStart
PatternColour(rows, columns, st, gun, c) ==
    LET x == c[1] - BoxStart(rows, Len(gun[1]))
        y == c[2] - BoxStart(columns, Len(gun))
    IN IF x \in 0..(Len(gun[1]) - 1) /\ y \in 0..(Len(gun) - 1) /\ gun[y + 1][x + 1] = 1
       THEN st.alive_color
       ELSE st.dead_color

\* C9: a ChangeSeed(kind) that is handled leaves settings.seed = kind and the other
\* settings, the board's size and its handle as they were.  The board it leaves
\* does not depend on the board it found: for Spaceship every cell is dead_color;
\* for a pattern that fits, the board is the pattern on dead cells; for a pattern
\* whose start wrapped below zero, every cell is dead_color; for Random every cell
\* is alive_color or dead_color.
C9_ChangeSeedClears ==
    [][\A kind \in Seeds :
          (/\ settings'.seed = kind
           /\ status' = "running"
           /\ handle_ui_events_reading(<< <<"ChangeSeed", kind>> >>)) =>
              LET rows == board_size.rows
                  columns == board_size.columns
                  after == board_image'.data
              IN /\ settings' = [settings EXCEPT !.seed = kind]
                 /\ UNCHANGED <<board_size, board_handle, texture>>
                 /\ Len(after) = rows * columns * 4
                 /\ kind = "Spaceship" => AllDead(after, settings)
                 /\ kind = "Random" =>
                        \A c \in Grid(rows, columns) :
                            CellBytes(after, rows, c[1], c[2])
                                \in {settings.alive_color, settings.dead_color}
                 /\ (kind \in Guns /\ Fits(rows, columns, GunOf(kind))) =>
                        \A c \in Grid(rows, columns) :
                            CellBytes(after, rows, c[1], c[2]) =
                                PatternColour(rows, columns, settings, GunOf(kind), c)
                 /\ (/\ kind \in Guns
                     /\ \/ BoxStart(rows, Len(GunOf(kind)[1])) < 0
                        \/ BoxStart(columns, Len(GunOf(kind))) < 0) =>
                        AllDead(after, settings)
    ]_vars

\* C9 witness: the brush painted a cell, no advance followed, and a
\* ChangeSeed(Spaceship) left every cell dead
C9_Witness ==
    /\ status = "running"
    /\ last.op = "handle_events" /\ last.arg = "painted"
    /\ settings.seed = "Spaceship"
    /\ AllDead(board_image.data, settings)

\* The step just taken handled a ChangeSeed of a pattern that fits the board
SeededGun(kind) ==
    /\ settings'.seed = kind
    /\ status' = "running"
    /\ Fits(board_size.rows, board_size.columns, GunOf(kind))
    /\ handle_ui_events_reading(<< <<"ChangeSeed", kind>> >>)

\* C10, as the code has it: a pattern of size W x H seeded on a board it fits is
\* written to the box [start, end) of each axis with start = floor(dimension / 2)
\* - size / 2 and end = start + size, whether size is odd or even: the cells
\* written are those of the box, and each gets the colour of its pattern cell.
C10_GunBox ==
    [][\A kind \in Guns :
          SeededGun(kind) =>
              LET gun == GunOf(kind)
                  rows == board_size.rows
                  columns == board_size.columns
                  xs == BoxStart(rows, Len(gun[1]))
                  ys == BoxStart(columns, Len(gun))
              IN /\ gun_range(rows, Len(gun[1])) = xs..(xs + Len(gun[1]) - 1)
                 /\ gun_range(columns, Len(gun)) = ys..(ys + Len(gun) - 1)
                 /\ \A c \in Grid(rows, columns) :
                       CellBytes(board_image'.data, rows, c[1], c[2]) =
                           PatternColour(rows, columns, settings, gun, c)
    ]_vars

\* C10 witness: the Simkin gun seeded on the 33 x 20 board: its last column,
\* column 32 of the board, holds the alive cells of pattern rows 11 and 12
C10_Witness ==
    /\ status = "running"
    /\ settings.seed = "SimkinGliderGun"
    /\ board_size = [rows |-> 33, columns |-> 20]
    /\ CellBytes(board_image.data, 33, 32, 11) = settings.alive_color
    /\ CellBytes(board_image.data, 33, 32, 12) = settings.alive_color
    /\ CellBytes(board_image.data, 33, 0, 0) = settings.alive_color
    /\ CellBytes(board_image.data, 33, 27, 19) = settings.alive_color

\* 1 for an odd size
OddExtra(size) == IF size % 2 = 1 THEN 1 ELSE 0

\* C10, as stated: the box ends at start + size + 1 when size is odd.
C10_AsStated ==
    [][\A kind \in Guns :
          SeededGun(kind) =>
              LET gun == GunOf(kind)
                  xs == BoxStart(board_size.rows, Len(gun[1]))
                  ys == BoxStart(board_size.columns, Len(gun))
              IN /\ gun_range(board_size.rows, Len(gun[1])) =
                        xs..(xs + Len(gun[1]) + OddExtra(Len(gun[1])) - 1)
                 /\ gun_range(board_size.columns, Len(gun)) =
                        ys..(ys + Len(gun) + OddExtra(Len(gun)) - 1)
    ]_vars

\* The cells of the box of a pattern on a rows x columns board
Box(rows, columns, gun) ==
    {c \in Grid(rows, columns) :
        /\ c[1] - BoxStart(rows, Len(gun[1])) \in 0..(Len(gun[1]) - 1)
        /\ c[2] - BoxStart(columns, Len(gun)) \in 0..(Len(gun) - 1)}

ConwayUnbounded(alive) ==
    LET near == UNION {{<<a[1] + dx, a[2] + dy>> : dx \in -1..1, dy \in -1..1} : a \in alive}
    IN {c \in near :
           LET n == Cardinality({a \in alive : /\ a # c
                                               /\ Abs(a[1] - c[1]) <= 1
                                               /\ Abs(a[2] - c[2]) <= 1})
           IN IF c \in alive THEN n \in {2, 3} ELSE n = 3}

\* The alive cells of the canonical Gosper gun (its 36 x 9 phase with the gun at
\* the top), as <<column, row>> from its top left corner
CanonicalGosper ==
    {<<24, 0>>,
     <<22, 1>>, <<24, 1>>,
     <<12, 2>>, <<13, 2>>, <<20, 2>>, <<21, 2>>, <<34, 2>>, <<35, 2>>,
     <<11, 3>>, <<15, 3>>, <<20, 3>>, <<21, 3>>, <<34, 3>>, <<35, 3>>,
     <<0, 4>>, <<1, 4>>, <<10, 4>>, <<16, 4>>, <<20, 4>>, <<21, 4>>,
     <<0, 5>>, <<1, 5>>, <<10, 5>>, <<14, 5>>, <<16, 5>>, <<17, 5>>, <<22, 5>>, <<24, 5>>,
     <<10, 6>>, <<16, 6>>, <<24, 6>>,
     <<11, 7>>, <<15, 7>>,
     <<12, 8>>, <<13, 8>>}

\* The canonical gun with its top left corner at (x, y)
GosperAt(x, y) == {<<x + c[1], y + c[2]>> : c \in CanonicalGosper}

\* Generation k of the gun centred on a rows x columns board, on the unbounded grid
RECURSIVE GosperGeneration(_, _, _)
GosperGeneration(rows, columns, k) ==
    IF k = 0
    THEN GosperAt(BoxStart(rows, Len(GosperGliderGun[1])),
                  BoxStart(columns, Len(GosperGliderGun)))
    ELSE ConwayUnbounded(GosperGeneration(rows, columns, k - 1))

\* The buffer holds exactly the cells `alive` as alive_color, all others dead_color
HoldsExactly(data, rows, columns, st, alive) ==
    /\ alive \subseteq Grid(rows, columns)
    /\ \A c \in Grid(rows, columns) :
          CellBytes(data, rows, c[1], c[2]) =
              IF c \in alive THEN st.alive_color ELSE st.dead_color

\* C12: on the 40 x 20 board, seeding the Gosper gun leaves generation 0 of the
\* canonical gun at its centred position, and an advance of the board that holds
\* generation k leaves generation k + 1, for k = 0, 1, 2, 3: four advances after
\* the seeding leave exactly generation 4 of the gun on the unbounded grid.
C12_GosperGeneration4 ==
    [][/\ SeededGun("GosperGliderGun") =>
             HoldsExactly(board_image'.data, 40, 20, settings', GosperGeneration(40, 20, 0))
       /\ \A k \in 0..3 :
             (/\ Advanced
              /\ HoldsExactly(board_image.data, 40, 20, settings, GosperGeneration(40, 20, k)))
                 => HoldsExactly(board_image'.data, 40, 20, settings,
                                 GosperGeneration(40, 20, k + 1))
    ]_vars

\* C12 witness: the fourth tick after the seeding has run: the board holds
\* generation 4, which is none of the generations before it
C12_Witness ==
    /\ last.op = "process_cells" /\ last.arg = "advanced"
    /\ settings.seed = "GosperGliderGun"
    /\ board_size = [rows |-> 40, columns |-> 20]
    /\ previous_tick = 4 * 2 * DefaultTimeStep
    /\ HoldsExactly(board_image.data, 40, 20, settings, GosperGeneration(40, 20, 4))
    /\ \A k \in 0..3 : GosperGeneration(40, 20, 4) # GosperGeneration(40, 20, k)

\* The other direction
Turned(o) == IF o = "h" THEN "v" ELSE "h"

\* The cells next to m on all eight sides are on the rows x columns grid
Interior(rows, columns, m) ==
    /\ m[1] - 1 >= 0 /\ m[1] + 1 <= rows - 1
    /\ m[2] - 1 >= 0 /\ m[2] + 1 <= columns - 1

\* C13, for the blinkers that have room to turn: an advance of a board whose
\* only alive cells are a blinker, the cells on both sides of its middle cell
\* on the grid in both directions, leaves the blinker turned about its middle
\* cell and nothing else; and the advance after that returns the board byte for
\* byte.
C13_BlinkerPeriod2 ==
    [][Advanced =>
          LET rows == board_size.rows
              columns == board_size.columns
          IN \A m \in Grid(rows, columns), o \in {"h", "v"} :
                Interior(rows, columns, m) =>
                    LET b0 == board_of(rows, columns, settings, Line(m, o))
                    IN /\ board_image.data = b0.data =>
                            HoldsExactly(board_image'.data, rows, columns, settings,
                                         Line(m, Turned(o)))
                       /\ board_image.data = process_loop(b0, rows, settings, b0.data, 0) =>
                            board_image'.data = b0.data
    ]_vars

\* C13 witness: the second tick in a row has run on a 4 x 3 board, which holds
\* the horizontal blinker about (1,1) again
C13_Witness ==
    /\ last.op = "process_cells" /\ last.arg = "advanced" /\ last.retained = 48
    /\ previous_tick = 4 * DefaultTimeStep
    /\ board_size = [rows |-> 4, columns |-> 3]
    /\ HoldsExactly(board_image.data, 4, 3, settings, Line(<<1, 1>>, "h"))

\* C13, as stated: for every board whose only alive cells are three in a line,
\* the second of two advances returns the board byte for byte.
C13_AsStated ==
    [][Advanced =>
          LET rows == board_size.rows
              columns == board_size.columns
          IN \A l \in Blinkers(rows, columns) :
                LET b0 == board_of(rows, columns, settings, l)
                IN board_image.data = process_loop(b0, rows, settings, b0.data, 0) =>
                       board_image'.data = b0.data
    ]_vars

\* The buffer is a Random seeding of a board of dead cells: for one of the
\* streams of draws, a cell is alive_color iff its draw made it so, and
\* dead_color otherwise
RandomOnDead(data, st) ==
    \E rnd \in Draws :
        \A k \in 1..Len(data) :
            data[k] = IF rnd[((k - 1) \div 4) % MaxDraw]
                      THEN st.alive_color[((k - 1) % 4) + 1]
                      ELSE st.dead_color[((k - 1) % 4) + 1]

\* C14: a ChangeCellSize(newSize) that handle_ui_events reads and handles leaves
\* rows = floor(window width / newSize) and columns = floor(window height /
\* newSize) for the window as it is then, settings.cell_size = newSize and the
\* other settings as they were; the old image is gone, and the board handle and
\* the sprite's texture name a new image of rows x columns cells that is a
\* board of dead cells seeded with the current seed: nothing for Spaceship, the
\* pattern for a gun that fits, nothing for a gun whose start wrapped, random
\* cells for Random.  No cell depends on the board before.
C14_ChangeCellSizeRebuilds ==
    [][\A c \in ResizeCellSizes :
          (/\ ui_events = << <<"ChangeCellSize", c>> >>
           /\ ui_events' = <<>>
           /\ status' = "running") =>
              LET rows == win.width \div c
                  columns == win.height \div c
                  kind == settings.seed
                  after == board_image'
              IN /\ board_size' = [rows |-> rows, columns |-> columns]
                 /\ settings' = [settings EXCEPT !.cell_size = c]
                 /\ board_handle \notin DOMAIN images'
                 /\ board_handle' \in DOMAIN images'
                 /\ texture' = board_handle'
                 /\ after.width = rows /\ after.height = columns
                 /\ Len(after.data) = rows * columns * 4
                 /\ kind = "Spaceship" => AllDead(after.data, settings)
                 /\ kind = "Random" => RandomOnDead(after.data, settings)
                 /\ (kind \in Guns /\ Fits(rows, columns, GunOf(kind))) =>
                        \A cell \in Grid(rows, columns) :
                            CellBytes(after.data, rows, cell[1], cell[2]) =
                                PatternColour(rows, columns, settings, GunOf(kind), cell)
                 /\ (kind \in Guns /\ ~Fits(rows, columns, GunOf(kind))) =>
                        AllDead(after.data, settings)
    ]_vars

\* C14 witness: in the window of 108 x 28, the seed being the Gosper gun, the
\* cell size was set to 3: the board is 36 x 9, a new image, and holds the gun
\* alone, whatever the brush had painted
C14_Witness ==
    /\ status = "running"
    /\ last.op = "handle_events" /\ last.arg = "painted"
    /\ win = [width |-> 108, height |-> 28]
    /\ settings.cell_size = 3
    /\ settings.seed = "GosperGliderGun"
    /\ board_size = [rows |-> 36, columns |-> 9]
    /\ board_handle # 0
    /\ HoldsExactly(board_image.data, 36, 9, settings, GosperAt(0, 0))

\* C15: a ChangeTimestep(seconds) that is handled assigns settings.time_step_secs
\* and nothing else: the images, the board's handle and size, the brush, the
\* other settings, the tick's buffer and clock, and the program's status are as
\* they were.
C15_ChangeTimestepOnly ==
    [][\A t \in MgrTimeSteps :
          handle_ui_events_reading(<< <<"ChangeTimestep", t>> >>) =>
              /\ settings' = [settings EXCEPT !.time_step_secs = t]
              /\ UNCHANGED <<images, board_handle, texture, board_size, brush,
                             next_state, previous_tick, elapsed, win, status>>
    ]_vars

\* C15 witness: the time step was changed, on a board that holds an alive cell and
\* no tick has touched
C15_Witness ==
    /\ status = "running"
    /\ settings.time_step_secs # DefaultTimeStep
    /\ settings = [GameSettingsDefault EXCEPT !.time_step_secs = settings.time_step_secs]
    /\ last.op = "setup"
    /\ board_size = [rows |-> 2, columns |-> 1]
    /\ CellBytes(board_image.data, 2, 0, 0) = settings.alive_color
    /\ CellBytes(board_image.data, 2, 1, 0) = AlphaOnly

\* The on-grid cells within r of (cx, cy)
Disc(rows, columns, cx, cy, r) ==
    {c \in Grid(rows, columns) :
        \E dx \in (-r)..r, dy \in (-r)..r :
            /\ dx * dx + dy * dy <= r * r
            /\ c = <<cx + dx, cy + dy>>}

\* The buffer `after` is `before` but for the cells `cells`, which are `colour`
PaintedOver(before, after, rows, columns, cells, colour) ==
    /\ Len(after) = Len(before)
    /\ \A c \in Grid(rows, columns) :
          CellBytes(after, rows, c[1], c[2]) =
              IF c \in cells THEN colour ELSE CellBytes(before, rows, c[1], c[2])

\* The board coordinate handle_events gives a cursor
BoardCoordinate(cursor) ==
    <<round_div(cursor[1] * board_size.rows, win.width),
      round_div(cursor[2] * board_size.columns, win.height)>>

\* C16: a stroke at board coordinate (cx, cy) with the brush at radius r sets to
\* alive_color exactly the on-grid cells (cx + dx, cy + dy) with dx, dy in
\* [-r, r] and dx*dx + dy*dy <= r*r and leaves every other cell as it was, also
\* when (cx, cy) is off the grid.  With radius 0 the loops set exactly the cell
\* (cx, cy), which get_pixel then reads as alive_color, and nothing when (cx, cy)
\* is off the grid.
C16_BrushDisc ==
    [][LET rows == board_size.rows
           columns == board_size.columns
       IN /\ \A keys \in BrushKeys, cursor \in BrushCursors :
                handle_events(keys, TRUE, FALSE, cursor) =>
                    LET at == BoardCoordinate(cursor)
                    IN PaintedOver(board_image.data, board_image'.data, rows, columns,
                                   Disc(rows, columns, at[1], at[2], brush'),
                                   settings.alive_color)
          /\ \A at \in {BoardCoordinate(cursor) : cursor \in BrushCursors} :
                LET painted == [board_image EXCEPT
                                   !.data = paint(board_image, settings, at[1], at[2], 0)]
                IN /\ PaintedOver(board_image.data, painted.data, rows, columns,
                                  {at} \cap Grid(rows, columns), settings.alive_color)
                   /\ at \in Grid(rows, columns) =>
                          get_pixel(painted, at[1], at[2]) = settings.alive_color
    ]_vars

\* C16 witness: on the 4 x 4 board, all of whose cells were dead, one stroke at
\* (2, 2) with radius 2 and one at (4, 4), off the grid, with radius 1 have been
\* made: eleven cells of the first disc are on the grid, none of the second
C16_Witness ==
    /\ last.op = "handle_events" /\ last.arg = "painted"
    /\ board_size = [rows |-> 4, columns |-> 4]
    /\ brush = 1
    /\ CellsOfColour(board_image.data, 4, 4, settings.alive_color) =
          Grid(4, 4) \ {<<0, 0>>, <<1, 0>>, <<3, 0>>, <<0, 1>>, <<0, 3>>}

\* C17: both accessors check the range on both axes.  For 0 <= x < rows and
\* 0 <= y < columns get_pixel gives the four bytes at offset (y*rows + x)*4 and
\* get_pixel_mut that offset; anywhere else, one cell off the grid on either side
\* of either axis included, both give None, and the write the brush makes through
\* get_pixel_mut changes no byte: x = -1 and x = rows are no cell of the row
\* before or after.
C17_AccessorsBoundsChecked ==
    LET rows == board_size.rows
        columns == board_size.columns
        data == board_image.data
    IN \A x \in (-2)..(rows + 1), y \in (-2)..(columns + 1) :
          LET pos == (y * rows + x) * 4
          IN IF 0 <= x /\ x < rows /\ 0 <= y /\ y < columns
             THEN /\ pos + 4 <= Len(data)
                  /\ get_pixel(board_image, x, y) =
                        <<data[pos + 1], data[pos + 2], data[pos + 3], data[pos + 4]>>
                  /\ get_pixel_mut(board_image, x, y) = <<pos>>
             ELSE /\ get_pixel(board_image, x, y) = None
                  /\ get_pixel_mut(board_image, x, y) = None
                  /\ paint(board_image, settings, x, y, 0) = data

\* C17 witness: on the 4 x 4 board the last cell of row 0 is alive and the first
\* cell of row 1 dead, after strokes; (4, 0) and (-1, 1), off the grid, have the
\* byte offsets of (0, 1) and (3, 0)
C17_Witness ==
    /\ last.op = "handle_events" /\ last.arg = "painted"
    /\ board_size = [rows |-> 4, columns |-> 4]
    /\ get_pixel(board_image, 3, 0) = settings.alive_color
    /\ get_pixel(board_image, 0, 1) = settings.dead_color
    /\ get_pixel(board_image, 4, 0) = None
    /\ get_pixel(board_image, -1, 1) = None

\* C18: the brush starts at 1 and stays within 1..255 whatever J and K do: J
\* takes one off unless the brush is 1, K adds one unless it is 255, and where
\* both are held J acts first; nothing wraps to 0 or to 255.
C18_BrushSaturates ==
    [][/\ brush \in 1..255
       /\ brush' \in 1..255
       /\ handle_events({"J"}, FALSE, FALSE, None) =>
              brush' = IF brush = 1 THEN 1 ELSE brush - 1
       /\ handle_events({"K"}, FALSE, FALSE, None) =>
              brush' = IF brush = 255 THEN 255 ELSE brush + 1
       /\ handle_events({"J", "K"}, FALSE, FALSE, None) =>
              brush' = IF brush = 1 THEN 2 ELSE brush
    ]_vars

\* C18 witness: K has taken the brush to 255
C18_Witness == brush = 255

\* C19: a call of handle_events with the left button pressed and the pointer over
\* an egui area changes no byte of any image, wherever the cursor is, whatever the
\* brush is and whichever of J and K are held.
C19_NoPaintOverUi ==
    [][\A keys \in BrushKeys, cursor \in BrushCursors \cup {None} :
          handle_events(keys, TRUE, TRUE, cursor) => images' = images
    ]_vars

\* C19 witness: K was held with the button pressed over the UI, before any stroke
\* reached the board: the brush is 2 and nothing was painted
C19_Witness ==
    /\ brush = 2
    /\ last.op # "handle_events"
    /\ board_size = [rows |-> 4, columns |-> 4]

\* C20: the board is advanced only by process_cells in the Update schedule, which
\* a frame runs once, after the clock of the frame and before every other system;
\* only when at least time_step_secs have passed since the advance before, or
\* since 0 for the first (previous_tick is 0 until then and the time of the last
\* advance after); in a frame in which less has passed process_cells changes no
\* image; and an advance leaves every one of the rows * columns cells recomputed
\* from the board it found.  The run condition of main.rs lets its systems run
\* only when at least t has passed, too.
C20_TickGate ==
    [][LET rows == board_size.rows
           columns == board_size.columns
           waited == elapsed - previous_tick
       IN /\ (Advanced \/ (images' # images /\ phase.stage = "Update")) =>
                /\ phase.stage = "Update" /\ phase.ran = {}
                /\ phase'.stage = "PostUpdate"
                /\ waited >= settings.time_step_secs
                /\ previous_tick' = elapsed
                /\ Len(board_image'.data) = rows * columns * 4
                /\ \A i \in 0..(rows * columns - 1) :
                      CellBytes(board_image'.data, rows, i % rows, i \div rows) =
                          ConwayColour(board_image.data, rows, columns, settings, i)
          /\ previous_tick' # previous_tick =>
                /\ phase.stage = "Update"
                /\ waited >= settings.time_step_secs
                /\ previous_tick' = elapsed
          /\ (phase.stage = "Update" /\ waited < settings.time_step_secs) =>
                UNCHANGED <<images, next_state, previous_tick>>
          /\ phase.stage = "Update" => (phase'.stage = "PostUpdate" /\ elapsed' = elapsed)
          /\ phase.stage # "First" => elapsed' = elapsed
          /\ \A t \in TickTimeSteps :
                LET tick == should_next_tick(t, previous_tick, elapsed)
                IN /\ tick.run => (waited >= t /\ tick.previous_tick = elapsed)
                   /\ waited < t => (~tick.run /\ tick.previous_tick = previous_tick)
    ]_vars

\* C20 witness: the second advance has just run, at time 4, on the next_state the
\* first had left, after frames in which the gate was closed
C20_Witness ==
    /\ last.op = "process_cells" /\ last.arg = "advanced"
    /\ last.retained = 16
    /\ previous_tick = 4
    /\ elapsed = 4
    /\ board_size = [rows |-> 2, columns |-> 2]
    /\ phase.stage = "PostUpdate"

\* C21: between the first cell evaluation of a pass and its swap nothing but the
\* pass acts: no image, setting, board size, handle or brush changes, so no
\* request and no stroke takes effect; and the swap installs what process_cells,
\* run in one piece on the board the pass started on, installs.  Outside a pass a
\* step that changes the images is one handling of a request or one stroke.
C21_SingleWriter ==
    [][/\ pass.active =>
            /\ UNCHANGED <<settings, board_size, board_handle, texture, brush, elapsed>>
            /\ images' # images => ~pass'.active
            /\ pass'.active => board_image'.data = pass.start
            /\ (~pass'.active /\ status' = "running") =>
                  /\ pass.start = board_image.data
                  /\ board_image'.data =
                        process_loop(board_image, board_size.rows, settings,
                                     board_image.data, 0)
       /\ (~pass.active /\ images' # images) =>
            /\ ~pass'.active
            /\ \/ last'.op = "handle_events" /\ last'.arg = "painted"
                   /\ UNCHANGED <<settings, board_size, board_handle, texture>>
               \/ ui_events' = <<>> /\ last' = last /\ brush' = brush
       /\ (~pass.active /\ pass'.active) => images' = images
    ]_vars

\* C21 witness: a pass over the 2 x 2 board, which a stroke had painted, has
\* evaluated two of its cells and written one that board.data does not hold yet
C21_Witness ==
    /\ pass.active /\ pass.i = 2
    /\ board_size = [rows |-> 2, columns |-> 2]
    /\ last.op = "handle_events" /\ last.arg = "painted"
    /\ CellBytes(board_image.data, 2, 0, 0) = settings.alive_color
    /\ CellBytes(next_state, 2, 0, 0) = settings.dead_color

\* C22: while the program runs, BoardHandle is the handle of an image, which the
\* sprite shows, so that the unwrap of process_cells, of ChangeColor and of
\* ChangeSeed finds the board: a panic is never that of a missing board.  A
\* ChangeCellSize that is handled through (the one request that changes
\* BoardHandle, and the one that changes cell_size) removes the image of the old
\* handle and leaves BoardHandle and the texture on the image it added, the only
\* image there is.
C22_BoardHandleResolves ==
    [][/\ status = "running" => (board_handle \in DOMAIN images /\ texture = board_handle)
       /\ status' = "running" => (board_handle' \in DOMAIN images' /\ texture' = board_handle')
       /\ (status = "running" /\ status' = "panicked") =>
             ~(last'.op = "process_cells" /\ last'.arg = "unwrap")
       /\ (settings'.cell_size # settings.cell_size /\ status' = "running") =>
             board_handle' # board_handle
       /\ (board_handle' # board_handle /\ status' = "running") =>
             /\ board_handle \notin DOMAIN images'
             /\ DOMAIN images' = {board_handle'}
             /\ texture' = board_handle'
             /\ ui_events' = <<>> /\ last' = last
    ]_vars

\* C22 witness: the board is the 3 x 1 a ChangeCellSize(2) put, under a new
\* handle, in the place of the 2 x 1 of the start, and an advance has run on it
C22_Witness ==
    /\ status = "running"
    /\ board_handle = 1
    /\ settings.cell_size = 2
    /\ board_size = [rows |-> 3, columns |-> 1]
    /\ last.op = "process_cells" /\ last.arg = "advanced"
    /\ DOMAIN images = {1}

\* The step just taken was a stroke of the brush that reached the board
Painted == images' # images /\ last'.op = "handle_events" /\ last'.arg = "painted"

\* C23: seed with Seed::Spaceship leaves every byte of the board it is given, and
\* does not panic; a handled ChangeSeed(Spaceship) leaves seed = Spaceship and
\* every cell dead_color; and from then on, while the seed is Spaceship, a
\* board all dead stays all dead under every step but a stroke of the brush: an
\* advance, one iteration of it, a ChangeColor, a ChangeCellSize, a ChangeSeed of
\* Spaceship again.
C23_SpaceshipSeedsNothing ==
    [][/\ \A rnd \in Draws :
             seed(board_image, [settings EXCEPT !.seed = "Spaceship"], rnd,
                  overflow_checks) = [data |-> board_image.data, panic |-> FALSE]
       /\ handle_ui_events_reading(<< <<"ChangeSeed", "Spaceship">> >>) =>
             /\ settings' = [settings EXCEPT !.seed = "Spaceship"]
             /\ status' = "running"
             /\ AllDead(board_image'.data, settings')
             /\ Len(board_image'.data) = Len(board_image.data)
       /\ (/\ settings.seed = "Spaceship" /\ settings'.seed = "Spaceship"
           /\ AllDead(board_image.data, settings)
           /\ ~Painted) =>
             /\ status' = "running"
             /\ AllDead(board_image'.data, settings')
    ]_vars

\* C23 witness: the seed is Spaceship and the second advance, or a later one, has
\* run on the 2 x 2 board: every cell is dead, in the board and in next_state
C23_Witness ==
    /\ status = "running"
    /\ settings.seed = "Spaceship"
    /\ board_size = [rows |-> 2, columns |-> 2]
    /\ last.op = "process_cells" /\ last.arg = "advanced"
    /\ AllDead(board_image.data, settings)
    /\ AllDead(next_state, settings)
    /\ previous_tick >= 4

\* The positions (x, y) of the cells of main.rs that are ALIVE
MainAlive(v, cells) ==
    {c \in Grid(Len(v), IF Len(v) = 0 THEN 0 ELSE Len(v[1])) :
        cells[v[c[1] + 1][c[2] + 1]].state = "ALIVE"}

\* C24: on every board, one process_cells of main.rs, run on the entities whose
\* cells are ALIVE where the board holds alive_color, leaves ALIVE exactly the
\* cells an advance of game_of_life.rs leaves alive_color, the cells of row 0 and
\* column 0, whose lookups cast -1 to usize, among them; and leaves every cell a
\* next_state equal to its state.
C24_EngineEquivalence ==
    [][Advanced =>
          LET rows == board_size.rows
              columns == board_size.columns
              v == EntityMap(rows, columns)
              after == main_process_cells(v, CellsOf(board_image, settings, rows, columns))
          IN /\ MainAlive(v, after) =
                   CellsOfColour(board_image'.data, rows, columns, settings.alive_color)
             /\ \A e \in DOMAIN after : after[e].next_state = <<after[e].state>>
    ]_vars

\* C24 witness: an advance of a 3 x 3 board has left alive the first row and
\* nothing else: cells of row 0 and of column 0 were born, survived and died
C24_Witness ==
    /\ last.op = "process_cells" /\ last.arg = "advanced"
    /\ board_size = [rows |-> 3, columns |-> 3]
    /\ CellsOfColour(board_image.data, 3, 3, settings.alive_color) =
          {<<0, 0>>, <<1, 0>>, <<2, 0>>}

\* C25: while the program runs, after whatever advances, strokes and requests,
\* every cell of the board is, byte for byte, the alive_color or the dead_color
\* the settings hold now.
C25_TwoColours ==
    (status = "running" /\ board_handle \in DOMAIN images) =>
        /\ Len(board_image.data) = board_size.rows * board_size.columns * 4
        /\ \A c \in Grid(board_size.rows, board_size.columns) :
              CellBytes(board_image.data, board_size.rows, c[1], c[2])
                  \in {settings.alive_color, settings.dead_color}

\* C25 witness: the alpha of the alive colour was changed while cells were alive,
\* and an advance has run since: the four cells of the 2 x 2 board hold the new
\* alive colour, none the old
C25_Witness ==
    /\ status = "running"
    /\ settings.alive_color = AlphaOnly
    /\ settings.dead_color = DefaultDead
    /\ board_size = [rows |-> 2, columns |-> 2]
    /\ last.op = "process_cells" /\ last.arg = "advanced"
    /\ CellsOfColour(board_image.data, 2, 2, AlphaOnly) = Grid(2, 2)

\* The world after the loop and the swap of process_cells, the gate open
AdvanceOf(w) ==
    LET board == w.images[w.board_handle]
    IN [w EXCEPT !.images[w.board_handle].data =
                    process_loop(board, w.board_size.rows, w.settings,
                                 sized_next_state(board), 0)]

\* C26: on every board, of whatever colours its cells are, and with settings
\* whose two colours differ, a ChangeColor(a, d) with a # d followed by an advance
\* leaves the images and the settings an advance followed by the ChangeColor(a, d)
\* leaves.
C26_ChangeColorCommutes ==
    (/\ status = "running" /\ ~pass.active
     /\ board_handle \in DOMAIN images
     /\ settings.alive_color # settings.dead_color) =>
        \A p \in ValidColours :
            LET first == AdvanceOf(change_color(world, p[1], p[2]))
                second == change_color(AdvanceOf(world), p[1], p[2])
            IN /\ first.images = second.images
               /\ first.settings = second.settings
               /\ first.status = "running" /\ second.status = "running"
               /\ first.settings.alive_color = p[1]
               /\ first.settings.dead_color = p[2]

\* C26 witness: the colours were swapped on a 2 x 2 board and an advance has
\* then run: all four cells are alive, in the new alive colour
C26_Witness ==
    /\ status = "running"
    /\ last.op = "process_cells" /\ last.arg = "advanced"
    /\ settings.alive_color = DefaultDead /\ settings.dead_color = DefaultAlive
    /\ board_size = [rows |-> 2, columns |-> 2]
    /\ CellsOfColour(board_image.data, 2, 2, DefaultDead) = Grid(2, 2)

\* C27: on a board that has at least the width and the height of a pattern, the
\* two loops of its seeding stay on the board and in the pattern: neither start
\* is below 0 (no subtraction overflows), x_end <= rows and y_end <= columns, the
\* ranges have the width and the height of the pattern, every offset written is
\* that of the cell (j, i) of the board and lies in the buffer, and the value read
\* is at a row and a column the pattern has; and the seeding of such a pattern
\* does not panic, with or without overflow checks.
C27_PatternStaysInside ==
    [][/\ \A kind \in Guns :
             LET gun == GunOf(kind)
                 rows == board_size.rows
                 columns == board_size.columns
                 x_start == gun_start(board_image.width, Len(gun[1]))
                 y_start == gun_start(board_image.height, Len(gun))
                 x_end == gun_end(board_image.width, Len(gun[1]))
                 y_end == gun_end(board_image.height, Len(gun))
             IN Fits(rows, columns, gun) =>
                   /\ 0 <= x_start /\ x_end <= rows /\ x_end - x_start = Len(gun[1])
                   /\ 0 <= y_start /\ y_end <= columns /\ y_end - y_start = Len(gun)
                   /\ ~gun_overflows(board_image, gun)
                   /\ ~gun_out_of_bounds(board_image, gun)
                   /\ gun_writes(board_image, gun) = (y_start..(y_end - 1)) \X (x_start..(x_end - 1))
                   /\ \A w \in gun_writes(board_image, gun) :
                         /\ w[2] < rows /\ w[1] < columns
                         /\ gun_offset_of(board_image, w[1], w[2]) = (w[1] * rows + w[2]) * 4
                         /\ gun_offset_of(board_image, w[1], w[2]) + 4 <= Len(board_image.data)
                         /\ (w[1] - y_start) + 1 \in DOMAIN gun
                         /\ (w[2] - x_start) + 1 \in DOMAIN gun[(w[1] - y_start) + 1]
       /\ (/\ settings'.seed \in Guns
           /\ ui_events' = <<>>
           /\ Fits(board_size.rows, board_size.columns, GunOf(settings'.seed))) =>
             /\ status' = "running"
             /\ Len(board_image'.data) = Len(board_image.data)
    ]_vars

\* C27 witness: the Simkin gun was seeded on the 33 x 20 board, which it fills: its
\* first and its last row and column hold alive cells
C27_Witness ==
    /\ status = "running"
    /\ settings.seed = "SimkinGliderGun"
    /\ board_size = [rows |-> 33, columns |-> 20]
    /\ \E c \in Grid(33, 20) : c[1] = 0 /\ get_pixel(board_image, c[1], c[2]) = settings.alive_color
    /\ \E c \in Grid(33, 20) : c[1] = 32 /\ get_pixel(board_image, c[1], c[2]) = settings.alive_color
    /\ \E c \in Grid(33, 20) : c[2] = 0 /\ get_pixel(board_image, c[1], c[2]) = settings.alive_color
    /\ \E c \in Grid(33, 20) : c[2] = 19 /\ get_pixel(board_image, c[1], c[2]) = settings.alive_color

\* The longest wait the gate asks for in SpecLive, and one more: the gate is strict
LiveRoom == (CHOOSE t \in TickTimeSteps : \A u \in TickTimeSteps : u <= t) + 1

\* C28: with frames that keep running and a clock that keeps increasing,
\* process_cells advances the board again and again: at every moment, whatever
\* positive time step, seed, colours or cell size the requests have set and
\* whatever they set later, an advance follows, unless a request has ended the
\* program or the clock cannot pass the previous tick by more than the longest
\* time step any more.
C28_AdvanceRecurs ==
    \/ []<><<Advanced>>_vars
    \/ <>[](status # "running")
    \/ <>[](previous_tick + LiveRoom > MaxLiveTime)

\* C28 witness: the second advance of the 2 x 1 board a ChangeCellSize has made,
\* after the colours were exchanged and the time step was doubled
C28_Witness ==
    /\ status = "running"
    /\ last.op = "process_cells" /\ last.arg = "advanced"
    /\ last.retained = 8
    /\ board_size = [rows |-> 2, columns |-> 1]
    /\ settings.time_step_secs = 2 * DefaultTimeStep
    /\ settings.cell_size = 2
    /\ settings.alive_color = DefaultDead
    /\ previous_tick = elapsed
    /\ phase.stage = "PostUpdate"

====
